---- MODULE Spec2Model ----
(***************************************************************************)
(* A model of polyglot's generation core: the project file store           *)
(* (src/services/FileSystemService.ts, both backends) and the generation   *)
(* orchestrator (src/services/AgentCore.ts).                               *)
(*                                                                         *)
(* A JavaScript string is modelled as a sequence of one-character strings, *)
(* so that path concatenation, normalisation, prefix and substring tests   *)
(* are computed the way the code computes them.                            *)
(***************************************************************************)
EXTENDS Integers, Sequences, FiniteSets, TLC

VARIABLES
  platform,        \* Platform.OS: "web" or "native" ("both": one service on each)
  webFileSystem,   \* FileSystemService.webFileSystem, in property (insertion) order
  nativeFS,        \* the device file system behind expo-file-system
  saveTimeout,     \* FileSystemService.saveTimeout: the handle of the last flush timer, 0 if unset
  timers,          \* the handles of the timers the runtime holds pending
  localStorage,    \* the value persisted under the key 'webFileSystem'
  writing,         \* the native writeFile call in flight, when its awaits are told apart
  now,             \* Date.now()
  lastOp,          \* the last FileStore operation or timer callback, its arguments and outcome
  apiKey,          \* AgentCore.apiKey ("undefined" until setApiKey)
  progressCallback,\* AgentCore.progressCallback is set
  events,          \* the AgentProgress values the progress callback has received
  pc,              \* where the generateProject call stands
  run,             \* the locals of the generateProject call in flight
  result,          \* what the call resolved with, or the error it rejected with
  ai,              \* the AI gateway as the run has seen it (calls, throws, prompt)
  hook,            \* the state of one useAgent hook and of its generateProject call
  currentPreview   \* PreviewEngine.currentPreview

fsVars ==
  <<platform, webFileSystem, nativeFS, saveTimeout, timers, localStorage, writing, now, lastOp>>

runVars == <<apiKey, progressCallback, events, pc, run, result, ai>>

uiVars == <<hook, currentPreview>>

vars == <<fsVars, runVars, uiVars>>

(***************************************************************************)
(* Bounds and input sets                                                   *)
(***************************************************************************)
MaxOps == 2

ProjectNames == { <<"p">>, <<"p", "2">> }
FilePaths == { <<"x">>, <<"s", "r", "c">>, <<"a", "/", "b", "/", "c">> }
Contents == { <<>>, <<"u">> }

(***************************************************************************)
(* JavaScript string primitives                                            *)
(***************************************************************************)
\* The element of a one-element set.  Value({ e(x) : x \in {d} }) is e(d) with d
\* computed once, as a JavaScript const is.
Value(S) == CHOOSE x \in S : TRUE

StartsWith(s, p) == Len(p) <= Len(s) /\ SubSeq(s, 1, Len(p)) = p

Includes(s, sub) ==
  \E i \in 0..(Len(s) - Len(sub)) : SubSeq(s, i + 1, i + Len(sub)) = sub

\* s.substring(from)
Substring(s, from) == IF from >= Len(s) THEN <<>> ELSE SubSeq(s, from + 1, Len(s))

\* s.substring(0, to); a negative to counts as 0
SubstringTo(s, to) == IF to <= 0 THEN <<>> ELSE SubSeq(s, 1, to)

\* s.indexOf(c), 0-based, -1 when absent
IndexOf(s, c) ==
  IF \E i \in 1..Len(s) : s[i] = c
  THEN (CHOOSE i \in 1..Len(s) : s[i] = c /\ \A j \in 1..(i - 1) : s[j] # c) - 1
  ELSE -1

\* s.lastIndexOf(c), 0-based, -1 when absent
LastIndexOf(s, c) ==
  IF \E i \in 1..Len(s) : s[i] = c
  THEN (CHOOSE i \in 1..Len(s) : s[i] = c /\ \A j \in (i + 1)..Len(s) : s[j] # c) - 1
  ELSE -1

\* s.split('/')[0]
FirstSegment(s) ==
  Value({ IF k = -1 THEN s ELSE SubstringTo(s, k) : k \in {IndexOf(s, "/")} })

\* s.split('/').filter(Boolean)
RECURSIVE Segments(_)
Segments(s) ==
  IF s = <<>> THEN <<>>
  ELSE Value({ IF k = -1 THEN <<s>>
               ELSE Value({ IF k = 0 THEN Segments(rest)
                            ELSE <<SubstringTo(s, k)>> \o Segments(rest) :
                            rest \in {Substring(s, k + 1)} }) :
               k \in {IndexOf(s, "/")} })

\* s.replace(/\/+/g, '/'): of each run of slashes the first one is kept
CollapseSlashes(s) ==
  LET Kept(pair) == ~(pair[1] = "/" /\ pair[2] = "/") IN
  Value({ [j \in 1..Len(kept) |-> kept[j][1]] :
          kept \in {SelectSeq([i \in 1..Len(s) |-> <<s[i], IF i > 1 THEN s[i - 1] ELSE "">>],
                              Kept)} })

\* s.replace(/\/$/, '')
StripTrailingSlash(s) ==
  IF Len(s) > 0 /\ s[Len(s)] = "/" THEN SubstringTo(s, Len(s) - 1) ELSE s

\* new Error(`${msg}${arg}`), or new Error(`${msg}${arg}: ${cause}`) when it wraps
\* the error caught: the fixed text, the interpolated path and the cause's text
Err(msg, arg, cause) == [msg |-> msg, arg |-> arg, cause |-> cause]

(***************************************************************************)
(* FileSystemService: the flat key-value backend (Platform.OS === 'web')   *)
(***************************************************************************)
BaseDirectoryWeb == <<"w", "e", "b", "-", "s", "t", "o", "r", "a", "g", "e", "/">>

InitialDirs ==
  << <<"s", "r", "c", "/">>,
     <<"a", "s", "s", "e", "t", "s", "/">>,
     <<"c", "o", "m", "p", "o", "n", "e", "n", "t", "s", "/">>,
     <<"s", "c", "r", "e", "e", "n", "s", "/">>,
     <<"s", "e", "r", "v", "i", "c", "e", "s", "/">> >>

normalizeWebPath(path) ==
  Value({ IF r = <<>> THEN <<"/">> ELSE r :
          r \in { StripTrailingSlash(c) : c \in { CollapseSlashes(p) : p \in {path} } } })

\* webFileSystem[key] !== undefined
WebHas(wfs, key) == \E i \in 1..Len(wfs) : wfs[i].path = key

\* webFileSystem[key]
WebGet(wfs, key) == wfs[CHOOSE i \in 1..Len(wfs) : wfs[i].path = key]

\* webFileSystem[key] = entry: an existing property keeps its place, a new one
\* goes last
WebSet(wfs, key, entry) ==
  Value({ IF WebHas(wfs, key)
          THEN [i \in 1..Len(wfs) |-> IF wfs[i].path = key THEN e ELSE wfs[i]]
          ELSE Append(wfs, e) :
          e \in {[path |-> key] @@ entry} })

DirectoryEntry(t) == [type |-> "directory", modificationTime |-> t, size |-> 0]

FileEntry(content, t) ==
  [content |-> content, type |-> "file", modificationTime |-> t, size |-> Len(content)]

RECURSIVE WebCreateDirs(_, _, _, _)
WebCreateDirs(wfs, projectPath, dirs, t) ==
  IF dirs = <<>> THEN wfs
  ELSE Value({ WebCreateDirs(made, projectPath, rest, t) :
               made \in { WebSet(wfs, dirPath, DirectoryEntry(t)) :
                          dirPath \in {normalizeWebPath(projectPath \o Head(dirs))} },
               rest \in {Tail(dirs)} })

WebCreateProject(wfs, projectName, t) ==
  Value({ [ok |-> TRUE,
           fs |-> Value({ WebCreateDirs(withRoot, projectPath, InitialDirs, t) :
                          withRoot \in { WebSet(wfs, normalizedPath, DirectoryEntry(t)) :
                                         normalizedPath \in {normalizeWebPath(projectPath)} } }),
           value |-> projectPath] :
          projectPath \in {BaseDirectoryWeb \o projectName \o <<"/">>} })

\* A writeFile that leaves alone a path that already holds an entry (a faulty
\* variant of WebWriteFile, used to test the properties)
WebWriteFileKeepFirst(wfs, projectPath, filePath, content, t) ==
  Value({ [ok |-> TRUE,
           fs |-> IF WebHas(wfs, fullPath) THEN wfs
                  ELSE WebSet(wfs, fullPath, FileEntry(content, t))] :
          fullPath \in {normalizeWebPath(projectPath \o filePath)} })

WebWriteFile(wfs, projectPath, filePath, content, t) ==
  Value({ Value({ [ok |-> TRUE, fs |-> WebSet(withDir, fullPath, FileEntry(content, t))] :
                  withDir \in { IF directory # <<>> /\ ~WebHas(wfs, directory)
                                THEN WebSet(wfs, directory, DirectoryEntry(t))
                                ELSE wfs :
                                directory \in {SubstringTo(fullPath, LastIndexOf(fullPath, "/"))} } }) :
          fullPath \in {normalizeWebPath(projectPath \o filePath)} })

WebReadFile(wfs, projectPath, filePath) ==
  Value({ IF ~WebHas(wfs, fullPath) \/ WebGet(wfs, fullPath).type # "file"
          THEN [ok |-> FALSE, error |-> Err("File does not exist", filePath, "")]
          ELSE [ok |-> TRUE, value |-> WebGet(wfs, fullPath).content] :
          fullPath \in {normalizeWebPath(projectPath \o filePath)} })

\* The loop of listFiles over Object.entries(webFileSystem), from entry k on
RECURSIVE WebListFilesFrom(_, _, _, _)
WebListFilesFrom(wfs, normalizedProjectPath, k, entries) ==
  IF k > Len(wfs) THEN entries
  ELSE Value({
         Value({ WebListFilesFrom(wfs, normalizedProjectPath, next, pushed) :
                 next \in {k + 1},
                 pushed \in { IF /\ StartsWith(path, normalizedProjectPath)
                                 /\ path # normalizedProjectPath
                                 /\ ~\E i \in 1..Len(entries) : entries[i].name = name
                              THEN Append(entries,
                                     [name |-> name, path |-> relativePath,
                                      type |-> wfs[k].type, size |-> wfs[k].size,
                                      modificationTime |-> wfs[k].modificationTime])
                              ELSE entries :
                              name \in {FirstSegment(relativePath)} } }) :
         path \in {wfs[k].path},
         relativePath \in {Substring(wfs[k].path, Len(normalizedProjectPath) + 1)} })

WebListFiles(wfs, projectPath) ==
  [ok |-> TRUE,
   value |-> Value({ WebListFilesFrom(wfs, root, 1, <<>>) :
                     root \in {normalizeWebPath(projectPath)} })]

WebDeleteProject(wfs, projectName) ==
  Value({ [ok |-> TRUE,
           fs |-> LET Kept(e) == ~StartsWith(e.path, projectPath)
                  IN  SelectSeq(wfs, Kept)] :
          projectPath \in {normalizeWebPath(BaseDirectoryWeb \o projectName \o <<"/">>)} })

WebCopyFile(wfs, sourcePath, destinationPath, t) ==
  Value({
    IF ~WebHas(wfs, normalizedSource) \/ WebGet(wfs, normalizedSource).type # "file"
    THEN [ok |-> FALSE, fs |-> wfs,
          error |-> Err("Source file does not exist", sourcePath, "")]
    ELSE Value({
           [ok |-> TRUE,
            fs |-> WebSet(withDir, normalizedDest,
                          [content |-> sourceFile.content, type |-> "file",
                           modificationTime |-> t, size |-> sourceFile.size])] :
           sourceFile \in {WebGet(wfs, normalizedSource)},
           withDir \in { IF destDir # <<>> /\ ~WebHas(wfs, destDir)
                         THEN WebSet(wfs, destDir, DirectoryEntry(t))
                         ELSE wfs :
                         destDir \in {SubstringTo(normalizedDest,
                                                  LastIndexOf(normalizedDest, "/"))} } }) :
    normalizedSource \in {normalizeWebPath(sourcePath)},
    normalizedDest \in {normalizeWebPath(destinationPath)} })

\* The loop of listProjects without its test for names already pushed (a faulty
\* variant of WebListProjectsFrom, used to test the properties)
RECURSIVE WebListProjectsAll(_, _, _, _)
WebListProjectsAll(wfs, normalizedBase, k, projects) ==
  IF k > Len(wfs) THEN projects
  ELSE Value({ WebListProjectsAll(wfs, normalizedBase, next, pushed) :
               next \in {k + 1},
               pushed \in { IF /\ wfs[k].type = "directory"
                               /\ StartsWith(wfs[k].path, normalizedBase)
                               /\ wfs[k].path # normalizedBase
                               /\ projectName # <<>>
                            THEN Append(projects, projectName)
                            ELSE projects :
                            projectName \in {FirstSegment(rel) :
                                             rel \in {Substring(wfs[k].path,
                                                                Len(normalizedBase) + 1)}} } })

\* The loop of listProjects over Object.entries(webFileSystem), from entry k on
RECURSIVE WebListProjectsFrom(_, _, _, _)
WebListProjectsFrom(wfs, normalizedBase, k, projects) ==
  IF k > Len(wfs) THEN projects
  ELSE Value({ WebListProjectsFrom(wfs, normalizedBase, next, pushed) :
               next \in {k + 1},
               pushed \in { IF /\ wfs[k].type = "directory"
                               /\ StartsWith(wfs[k].path, normalizedBase)
                               /\ wfs[k].path # normalizedBase
                               /\ projectName # <<>>
                               /\ ~\E i \in 1..Len(projects) : projects[i] = projectName
                            THEN Append(projects, projectName)
                            ELSE projects :
                            projectName \in {FirstSegment(rel) :
                                             rel \in {Substring(wfs[k].path,
                                                                Len(normalizedBase) + 1)}} } })

WebListProjects(wfs) ==
  [ok |-> TRUE,
   value |-> Value({ WebListProjectsFrom(wfs, base, 1, <<>>) :
                     base \in {normalizeWebPath(BaseDirectoryWeb)} })]

(***************************************************************************)
(* expo-file-system, as FileSystemService calls it.  The device file       *)
(* system maps a resolved path (its non-empty segments) to a node; the     *)
(* root <<>> is always a directory.                                        *)
(***************************************************************************)
DocumentDirectory == <<"/", "d", "/">>

BaseDirectoryNative ==
  DocumentDirectory \o <<"p", "r", "o", "j", "e", "c", "t", "s", "/">>

Parent(p) == SubSeq(p, 1, Len(p) - 1)

IsUnder(q, p) == Len(q) > Len(p) /\ SubSeq(q, 1, Len(p)) = p

NExists(nfs, p) == p = <<>> \/ p \in DOMAIN nfs

NIsDirectory(nfs, p) == p = <<>> \/ (p \in DOMAIN nfs /\ nfs[p].type = "directory")

NIsFile(nfs, p) == p \in DOMAIN nfs /\ nfs[p].type = "file"

\* FileSystem.getInfoAsync(path)
getInfoAsync(nfs, path) ==
  Value({ IF ~NExists(nfs, p) THEN [exists |-> FALSE, isDirectory |-> FALSE]
          ELSE IF p = <<>> THEN [exists |-> TRUE, isDirectory |-> TRUE, size |-> 0,
                                 modificationTime |-> 0]
          ELSE [exists |-> TRUE, isDirectory |-> nfs[p].type = "directory",
                size |-> nfs[p].size, modificationTime |-> nfs[p].modificationTime] :
          p \in { Segments(s) : s \in {path} } })

\* FileSystem.makeDirectoryAsync(path, { intermediates: true })
makeDirectoryAsync(nfs, path, t) ==
  Value({ IF \E q \in prefixes : NIsFile(nfs, q)
          THEN [ok |-> FALSE, fs |-> nfs, error |-> "Directory could not be created"]
          ELSE Value({ [ok |-> TRUE,
                        fs |-> [q \in DOMAIN nfs \cup missing |->
                                  IF q \in missing THEN DirectoryEntry(t) ELSE nfs[q]]] :
                       missing \in {{ q \in prefixes : ~NExists(nfs, q) }} }) :
          prefixes \in { { SubSeq(p, 1, k) : k \in 1..Len(p) } :
                         p \in { Segments(s) : s \in {path} } } })

\* FileSystem.writeAsStringAsync(path, content, { encoding })
writeAsStringAsync(nfs, path, content, t) ==
  Value({ IF p = <<>> \/ ~NIsDirectory(nfs, Parent(p)) \/ NIsDirectory(nfs, p)
          THEN [ok |-> FALSE, fs |-> nfs, error |-> "File is not writable"]
          ELSE [ok |-> TRUE,
                fs |-> [q \in DOMAIN nfs \cup {p} |->
                          IF q = p THEN FileEntry(content, t) ELSE nfs[q]]] :
          p \in { Segments(s) : s \in {path} } })

\* FileSystem.moveAsync({ from, to }): replaces an existing file at `to`
moveAsync(nfs, from, to) ==
  Value({ IF \/ ~NIsFile(nfs, f)
             \/ d = <<>> \/ ~NIsDirectory(nfs, Parent(d)) \/ NIsDirectory(nfs, d)
          THEN [ok |-> FALSE, fs |-> nfs, error |-> "File could not be moved"]
          ELSE [ok |-> TRUE,
                fs |-> [q \in (DOMAIN nfs \ {f}) \cup {d} |->
                          IF q = d THEN nfs[f] ELSE nfs[q]]] :
          f \in { Segments(s) : s \in {from} },
          d \in { Segments(s) : s \in {to} } })

\* FileSystem.copyAsync({ from, to })
copyAsync(nfs, from, to, t) ==
  Value({ IF \/ ~NIsFile(nfs, f)
             \/ d = <<>> \/ ~NIsDirectory(nfs, Parent(d)) \/ NIsDirectory(nfs, d)
          THEN [ok |-> FALSE, fs |-> nfs, error |-> "File could not be copied"]
          ELSE [ok |-> TRUE,
                fs |-> [q \in DOMAIN nfs \cup {d} |->
                          IF q = d THEN FileEntry(nfs[f].content, t) ELSE nfs[q]]] :
          f \in { Segments(s) : s \in {from} },
          d \in { Segments(s) : s \in {to} } })

\* FileSystem.deleteAsync(path, { idempotent: true })
deleteAsync(nfs, path) ==
  Value({ [ok |-> TRUE,
           fs |-> [q \in { r \in DOMAIN nfs : r # p /\ ~IsUnder(r, p) } |-> nfs[q]]] :
          p \in { Segments(s) : s \in {path} } })

\* FileSystem.readAsStringAsync(path, { encoding })
readAsStringAsync(nfs, path) ==
  Value({ IF NIsFile(nfs, p) THEN [ok |-> TRUE, value |-> nfs[p].content]
          ELSE [ok |-> FALSE, error |-> "File could not be read"] :
          p \in { Segments(s) : s \in {path} } })

\* FileSystem.readDirectoryAsync(path): the names in the directory
readDirectoryAsync(nfs, path) ==
  Value({ IF NIsDirectory(nfs, p)
          THEN [ok |-> TRUE,
                value |-> { q[Len(q)] : q \in { r \in DOMAIN nfs : Parent(r) = p } }]
          ELSE [ok |-> FALSE, error |-> "Directory could not be read"] :
          p \in { Segments(s) : s \in {path} } })

(***************************************************************************)
(* FileSystemService: the native backend.  `fault` names the expo call     *)
(* that the device fails ("none": no I/O failure).                         *)
(***************************************************************************)
Faults == {"none", "mkdir", "write", "move"}

NativeEnsureDirectoryExists(nfs, path, t, fault) ==
  Value({ IF getInfoAsync(nfs, dirPath).exists THEN [ok |-> TRUE, fs |-> nfs]
          ELSE IF fault = "mkdir"
          THEN [ok |-> FALSE, fs |-> nfs, error |-> "Permission denied"]
          ELSE makeDirectoryAsync(nfs, dirPath, t) :
          dirPath \in {path} })

RECURSIVE NativeEnsureAll(_, _, _, _)
NativeEnsureAll(nfs, paths, t, fault) ==
  IF paths = <<>> THEN [ok |-> TRUE, fs |-> nfs]
  ELSE Value({ IF r.ok
               THEN Value({ NativeEnsureAll(fs, rest, t, fault) :
                            fs \in {r.fs}, rest \in {Tail(paths)} })
               ELSE r :
               r \in {NativeEnsureDirectoryExists(nfs, Head(paths), t, fault)} })

NativeCreateProject(nfs, projectName, t, fault) ==
  Value({
    Value({ IF r.ok THEN [ok |-> TRUE, fs |-> r.fs, value |-> projectPath]
            ELSE [ok |-> FALSE, fs |-> r.fs,
                  error |-> Err("Failed to create project", <<>>, r.error)] :
            r \in { NativeEnsureAll(nfs, paths, t, fault) :
                    paths \in {<<BaseDirectoryNative, projectPath>>
                                \o [i \in 1..Len(InitialDirs) |->
                                      projectPath \o InitialDirs[i]]} } }) :
    projectPath \in {BaseDirectoryNative \o projectName \o <<"/">>} })

\* A write that goes straight to the file's own path (a faulty variant of
\* TempPath, used to test the properties)
InPlace(fullPath) == fullPath

\* const tempPath = `${fullPath}.tmp`
TempPath(fullPath) == fullPath \o <<".", "t", "m", "p">>

\* The catch block of writeFile
WriteFailed(fs, filePath, cause) ==
  [ok |-> FALSE, fs |-> fs, error |-> Err("Failed to write file", filePath, cause)]

\* writeFile, native branch, once the directory is ensured (dir): the content
\* goes to tempPath, which is then moved to fullPath
NativeWriteTemp(dir, fullPath, tempPath, filePath, content, t, fault) ==
  IF ~dir.ok THEN WriteFailed(dir.fs, filePath, dir.error)
  ELSE IF fault = "write" THEN WriteFailed(dir.fs, filePath, "No space left on device")
  ELSE Value({
         IF ~w.ok THEN WriteFailed(w.fs, filePath, w.error)
         ELSE IF fault = "move" THEN WriteFailed(w.fs, filePath, "No space left on device")
         ELSE Value({ IF ~m.ok THEN WriteFailed(m.fs, filePath, m.error)
                      ELSE [ok |-> TRUE, fs |-> m.fs] :
                      m \in {moveAsync(w.fs, tempPath, fullPath)} }) :
         w \in {writeAsStringAsync(dir.fs, tempPath, content, t)} })

NativeWriteFile(nfs, projectPath, filePath, content, t, fault) ==
  Value({
    Value({ NativeWriteTemp(dir, fullPath, tempPath, filePath, content, t, fault) :
            tempPath \in {TempPath(fullPath)},
            dir \in { NativeEnsureDirectoryExists(nfs, directory, t, fault) :
                      directory \in {SubstringTo(fullPath, LastIndexOf(fullPath, "/"))} } }) :
    fullPath \in {projectPath \o filePath} })

NativeReadFile(nfs, projectPath, filePath) ==
  Value({
    IF ~getInfoAsync(nfs, fullPath).exists
    THEN [ok |-> FALSE, error |-> Err("Failed to read file", filePath, "File does not exist")]
    ELSE Value({ IF r.ok THEN r
                 ELSE [ok |-> FALSE, error |-> Err("Failed to read file", filePath, r.error)] :
                 r \in {readAsStringAsync(nfs, fullPath)} }) :
    fullPath \in {projectPath \o filePath} })

\* listFilesRecursive, native branch: `items` are the names of currentPath still
\* to visit (readDirectoryAsync fixes no order)
RECURSIVE NativeListItems(_, _, _, _, _)
NativeListItems(nfs, basePath, relativePath, items, entries) ==
  IF items = {} THEN entries
  ELSE Value({
         Value({
           Value({ NativeListItems(nfs, basePath, relativePath, rest, below) :
                   rest \in {items \ {item}},
                   below \in { IF info.isDirectory
                               THEN Value({ NativeListItems(nfs, basePath, sub, names, pushed) :
                                            sub \in {itemRelativePath \o <<"/">>},
                                            names \in {readDirectoryAsync(
                                                         nfs, itemPath \o <<"/">>).value} })
                               ELSE pushed :
                               pushed \in {Append(entries,
                                             [name |-> item, path |-> itemRelativePath,
                                              type |-> IF info.isDirectory
                                                       THEN "directory" ELSE "file",
                                              size |-> info.size,
                                              modificationTime |-> info.modificationTime])} } }) :
           itemPath \in {basePath \o itemRelativePath},
           info \in {getInfoAsync(nfs, basePath \o itemRelativePath)} }) :
         item \in {CHOOSE i \in items : TRUE},
         itemRelativePath \in {relativePath \o (CHOOSE i \in items : TRUE)} })

NativeListFiles(nfs, projectPath) ==
  Value({ IF top.ok
          THEN [ok |-> TRUE, value |-> NativeListItems(nfs, projectPath, <<>>, top.value, <<>>)]
          ELSE [ok |-> FALSE, error |-> Err("Failed to list files", <<>>, top.error)] :
          top \in {readDirectoryAsync(nfs, projectPath)} })

NativeDeleteProject(nfs, projectName) ==
  Value({ IF getInfoAsync(nfs, projectPath).exists
          THEN deleteAsync(nfs, projectPath)
          ELSE [ok |-> TRUE, fs |-> nfs] :
          projectPath \in {BaseDirectoryNative \o projectName \o <<"/">>} })

NativeCopyFile(nfs, sourcePath, destinationPath, t, fault) ==
  Value({
    IF ~dir.ok
    THEN [ok |-> FALSE, fs |-> dir.fs, error |-> Err("Failed to copy file", <<>>, dir.error)]
    ELSE Value({ IF c.ok THEN [ok |-> TRUE, fs |-> c.fs]
                 ELSE [ok |-> FALSE, fs |-> c.fs,
                       error |-> Err("Failed to copy file", <<>>, c.error)] :
                 c \in {copyAsync(dir.fs, sourcePath, destinationPath, t)} }) :
    dir \in { NativeEnsureDirectoryExists(nfs, destDir, t, fault) :
              destDir \in {SubstringTo(destinationPath,
                                       LastIndexOf(destinationPath, "/"))} } })

RECURSIVE NativeListProjectsFrom(_, _, _)
NativeListProjectsFrom(nfs, entries, projects) ==
  IF entries = {} THEN projects
  ELSE Value({
         Value({ NativeListProjectsFrom(nfs, rest, pushed) :
                 rest \in {entries \ {entry}},
                 pushed \in { IF info.isDirectory THEN Append(projects, entry) ELSE projects :
                              info \in {getInfoAsync(nfs, BaseDirectoryNative \o entry)} } }) :
         entry \in {CHOOSE e \in entries : TRUE} })

\* listProjects creates the base directory when it is missing
NativeListProjects(nfs, t, fault) ==
  Value({
    IF ~dir.ok
    THEN [ok |-> FALSE, fs |-> dir.fs,
          error |-> Err("Failed to list projects", <<>>, dir.error)]
    ELSE [ok |-> TRUE, fs |-> dir.fs,
          value |-> NativeListProjectsFrom(
                      dir.fs, readDirectoryAsync(dir.fs, BaseDirectoryNative).value, <<>>)] :
    dir \in {NativeEnsureDirectoryExists(nfs, BaseDirectoryNative, t, fault)} })

(***************************************************************************)
(* FileSystemService: the public operations.  Each one branches on         *)
(* Platform.OS; `st` holds the two backing stores, and the result says     *)
(* whether the call resolved (ok), the stores it leaves, the value or the  *)
(* error, and whether it called scheduleSaveWebFileSystem (save).          *)
(***************************************************************************)
BaseDirectory(plat) == IF plat = "web" THEN BaseDirectoryWeb ELSE BaseDirectoryNative

createProject(plat, st, projectName, t, fault) ==
  IF plat = "web"
  THEN Value({ [ok |-> TRUE, st |-> [st EXCEPT !.web = r.fs], value |-> r.value,
                save |-> TRUE] :
               r \in {WebCreateProject(st.web, projectName, t)} })
  ELSE Value({ IF r.ok
               THEN [ok |-> TRUE, st |-> [st EXCEPT !.native = r.fs], value |-> r.value,
                     save |-> FALSE]
               ELSE [ok |-> FALSE, st |-> [st EXCEPT !.native = r.fs], error |-> r.error,
                     save |-> FALSE] :
               r \in {NativeCreateProject(st.native, projectName, t, fault)} })

writeFile(plat, st, projectPath, filePath, content, t, fault) ==
  IF plat = "web"
  THEN Value({ [ok |-> TRUE, st |-> [st EXCEPT !.web = r.fs], save |-> TRUE] :
               r \in {WebWriteFile(st.web, projectPath, filePath, content, t)} })
  ELSE Value({ IF r.ok
               THEN [ok |-> TRUE, st |-> [st EXCEPT !.native = r.fs], save |-> FALSE]
               ELSE [ok |-> FALSE, st |-> [st EXCEPT !.native = r.fs], error |-> r.error,
                     save |-> FALSE] :
               r \in {NativeWriteFile(st.native, projectPath, filePath, content, t, fault)} })

readFile(plat, st, projectPath, filePath) ==
  IF plat = "web"
  THEN WebReadFile(st.web, projectPath, filePath)
  ELSE NativeReadFile(st.native, projectPath, filePath)

listFiles(plat, st, projectPath) ==
  IF plat = "web"
  THEN WebListFiles(st.web, projectPath)
  ELSE NativeListFiles(st.native, projectPath)

deleteProject(plat, st, projectName) ==
  IF plat = "web"
  THEN Value({ [ok |-> TRUE, st |-> [st EXCEPT !.web = r.fs], save |-> TRUE] :
               r \in {WebDeleteProject(st.web, projectName)} })
  ELSE Value({ [ok |-> TRUE, st |-> [st EXCEPT !.native = r.fs], save |-> FALSE] :
               r \in {NativeDeleteProject(st.native, projectName)} })

copyFile(plat, st, sourcePath, destinationPath, t, fault) ==
  IF plat = "web"
  THEN Value({ IF r.ok
               THEN [ok |-> TRUE, st |-> [st EXCEPT !.web = r.fs], save |-> TRUE]
               ELSE [ok |-> FALSE, st |-> st, error |-> r.error, save |-> FALSE] :
               r \in {WebCopyFile(st.web, sourcePath, destinationPath, t)} })
  ELSE Value({ IF r.ok
               THEN [ok |-> TRUE, st |-> [st EXCEPT !.native = r.fs], save |-> FALSE]
               ELSE [ok |-> FALSE, st |-> [st EXCEPT !.native = r.fs], error |-> r.error,
                     save |-> FALSE] :
               r \in {NativeCopyFile(st.native, sourcePath, destinationPath, t, fault)} })

listProjects(plat, st, t, fault) ==
  IF plat = "web"
  THEN Value({ [ok |-> TRUE, st |-> st, value |-> r.value] :
               r \in {WebListProjects(st.web)} })
  ELSE Value({ IF r.ok
               THEN [ok |-> TRUE, st |-> [st EXCEPT !.native = r.fs], value |-> r.value]
               ELSE [ok |-> FALSE, st |-> [st EXCEPT !.native = r.fs], error |-> r.error] :
               r \in {NativeListProjects(st.native, t, fault)} })

(***************************************************************************)
(* The file store as a state machine: a caller invokes the operations in   *)
(* any order, MaxOps times.                                                *)
(***************************************************************************)
Store == [web |-> webFileSystem, native |-> nativeFS]

ProjectRoot(plat, name) == BaseDirectory(plat) \o name \o <<"/">>

Roots == { ProjectRoot(platform, n) : n \in ProjectNames }

\* (source, destination) pairs for copyFile, relative to one project root
CopyPairs ==
  { << <<"x">>, <<"a", "/", "b", "/", "c">> >>,
    << <<"s", "r", "c">>, <<"x">> >> }

FaultsOf(plat, faults) == IF plat = "web" THEN {"none"} ELSE faults

\* A scheduleSaveWebFileSystem that sets its timer without clearing the one
\* before (a faulty variant, used to test the properties)
scheduleWithoutClear(pending, handle, new) == pending \cup {new}

\* scheduleSaveWebFileSystem(): the pending timers after it, handle being the
\* value of saveTimeout and new the handle setTimeout returns
scheduleSaveWebFileSystem(pending, handle, new) ==
  (IF handle # 0 THEN pending \ {handle} ELSE pending) \cup {new}

\* The stores and the flush timer after an operation's result r; the clock value
\* serves as the handle of the timer set
Commit(r) ==
  /\ webFileSystem' = r.st.web
  /\ nativeFS' = r.st.native
  /\ saveTimeout' = IF r.save THEN now ELSE saveTimeout
  /\ timers' = IF r.save THEN scheduleSaveWebFileSystem(timers, saveTimeout, now) ELSE timers
  /\ now' = now + 1
  /\ UNCHANGED <<platform, localStorage, writing>>
  /\ UNCHANGED <<runVars, uiVars>>

Prev == [op |-> lastOp.op, name |-> lastOp.name]

\* AgentCore after construction: no key, no callback, no call in flight
InitAgent ==
  /\ apiKey = "undefined"
  /\ progressCallback = FALSE
  /\ events = <<>>
  /\ pc = "idle"
  /\ run = [request |-> "none"]
  /\ result = [settled |-> "pending"]
  /\ ai = [calls |-> 0, induced |-> 0, faulty |-> 0, thirdTry |-> <<>>,
           prompt |-> [kind |-> "none"]]

\* The useAgent hook after its first render and PreviewEngine after construction
InitUI ==
  /\ hook = [isGenerating |-> FALSE, progress |-> <<>>, currentProject |-> <<>>,
             error |-> <<>>, registered |-> FALSE, handled |-> 0, call |-> "none"]
  /\ currentPreview = [set |-> FALSE]

\* The stores a session can start from: nothing stored yet, or the project "p"
\* left by an earlier session (the flat backend loads it from localStorage in
\* the constructor, the native one finds it on the device)
EmptyStore == [web |-> <<>>, native |-> (Segments(DocumentDirectory) :> DirectoryEntry(0))]

InitialStores(plat) ==
  { EmptyStore, createProject(plat, EmptyStore, <<"p">>, 0, "none").st }

InitFS ==
  /\ platform \in {"web", "native"}
  /\ \E st \in InitialStores(platform) :
       /\ webFileSystem = st.web
       /\ nativeFS = st.native
       /\ localStorage = IF platform = "web" /\ st.web # <<>> THEN <<st.web>> ELSE <<>>
  /\ saveTimeout = 0
  /\ timers = {}
  /\ writing = [stage |-> "idle"]
  /\ now = 1
  /\ lastOp = [op |-> "none", name |-> <<>>]
  /\ InitAgent
  /\ InitUI

CreateProject(name) ==
  /\ now <= MaxOps
  /\ \E fault \in FaultsOf(platform, {"none", "mkdir"}) :
       \E r \in {createProject(platform, Store, name, now, fault)} :
       /\ Commit(r)
       /\ lastOp' = [op |-> "createProject", name |-> name, ok |-> r.ok,
                     before |-> Store, prev |-> Prev]

WriteFile(root, path, content) ==
  /\ now <= MaxOps
  /\ \E fault \in FaultsOf(platform, {"none", "move"}) :
       \E r \in {writeFile(platform, Store, root, path, content, now, fault)} :
       /\ Commit(r)
       /\ lastOp' = [op |-> "writeFile", name |-> root, path |-> path,
                     content |-> content, ok |-> r.ok,
                     before |-> Store, prev |-> Prev]

\* readFile and listFiles assign nothing: the call returns or throws
ReadFile(root, path) ==
  /\ readFile(platform, Store, root, path).ok \in BOOLEAN
  /\ UNCHANGED vars

ListFiles(root) ==
  /\ listFiles(platform, Store, root).ok \in BOOLEAN
  /\ UNCHANGED vars

DeleteProject(name) ==
  /\ now <= MaxOps
  /\ \E r \in {deleteProject(platform, Store, name)} :
     /\ Commit(r)
     /\ lastOp' = [op |-> "deleteProject", name |-> name, ok |-> r.ok,
                   before |-> Store, prev |-> Prev]

CopyFile(root, pair) ==
  /\ now <= MaxOps
  /\ \E fault \in FaultsOf(platform, {"none"}) :
       \E r \in {copyFile(platform, Store, root \o pair[1], root \o pair[2], now, fault)} :
       /\ Commit(r)
       /\ lastOp' = [op |-> "copyFile", name |-> root, path |-> pair[1],
                     dest |-> pair[2], ok |-> r.ok,
                     before |-> Store, prev |-> Prev]

ListProjects ==
  /\ now <= MaxOps
  /\ \E fault \in FaultsOf(platform, {"none"}) :
       \E r \in {listProjects(platform, Store, now, fault)} :
       /\ Commit([r EXCEPT !.st = r.st] @@ [save |-> FALSE])
       /\ lastOp' = [op |-> "listProjects", name |-> <<>>, ok |-> r.ok,
                     result |-> r, before |-> Store, prev |-> Prev]

NextFS ==
  \/ \E n \in ProjectNames : CreateProject(n)
  \/ \E root \in Roots, path \in FilePaths, c \in Contents : WriteFile(root, path, c)
  \/ \E root \in Roots, path \in FilePaths : ReadFile(root, path)
  \/ \E root \in Roots : ListFiles(root)
  \/ \E n \in ProjectNames : DeleteProject(n)
  \/ \E root \in Roots, pair \in CopyPairs : CopyFile(root, pair)
  \/ ListProjects

SpecFS == InitFS /\ [][NextFS]_vars

(***************************************************************************)
(* Two services side by side, one on each platform, that receive the same  *)
(* calls (platform = "both"): webFileSystem is the state of the one,       *)
(* nativeFS the device of the other.  No I/O failure is induced.           *)
(***************************************************************************)
\* The state after the same call resolved or threw on each service
CommitBoth(rw, rn, op) ==
  /\ webFileSystem' = rw.st.web
  /\ nativeFS' = rn.st.native
  /\ saveTimeout' = IF rw.save THEN now ELSE saveTimeout
  /\ timers' = IF rw.save THEN scheduleSaveWebFileSystem(timers, saveTimeout, now) ELSE timers
  /\ now' = now + 1
  /\ lastOp' = op @@ [ok |-> rw.ok, okNative |-> rn.ok]
  /\ UNCHANGED <<platform, localStorage, writing>>
  /\ UNCHANGED <<runVars, uiVars>>

InitBoth ==
  /\ platform = "both"
  /\ \E st \in { EmptyStore,
                 createProject("native", createProject("web", EmptyStore, <<"p">>, 0, "none").st,
                               <<"p">>, 0, "none").st } :
       /\ webFileSystem = st.web
       /\ nativeFS = st.native
       /\ localStorage = IF st.web # <<>> THEN <<st.web>> ELSE <<>>
  /\ saveTimeout = 0
  /\ timers = {}
  /\ writing = [stage |-> "idle"]
  /\ now = 1
  /\ lastOp = [op |-> "none", name |-> <<>>]
  /\ InitAgent
  /\ InitUI

BothCreateProject(name) ==
  /\ now <= MaxOps
  /\ \E rw \in {createProject("web", Store, name, now, "none")},
        rn \in {createProject("native", Store, name, now, "none")} :
       CommitBoth(rw, rn, [op |-> "createProject", name |-> name])

BothWriteFile(name, path, content) ==
  /\ now <= MaxOps
  /\ \E rw \in {writeFile("web", Store, ProjectRoot("web", name), path, content, now, "none")},
        rn \in {writeFile("native", Store, ProjectRoot("native", name), path, content,
                          now, "none")} :
       CommitBoth(rw, rn, [op |-> "writeFile", name |-> name, path |-> path,
                           content |-> content])

BothCopyFile(name, pair) ==
  /\ now <= MaxOps
  /\ \E rw \in {copyFile("web", Store, ProjectRoot("web", name) \o pair[1],
                         ProjectRoot("web", name) \o pair[2], now, "none")},
        rn \in {copyFile("native", Store, ProjectRoot("native", name) \o pair[1],
                         ProjectRoot("native", name) \o pair[2], now, "none")} :
       CommitBoth(rw, rn, [op |-> "copyFile", name |-> name, path |-> pair[1],
                           dest |-> pair[2]])

BothDeleteProject(name) ==
  /\ now <= MaxOps
  /\ \E rw \in {deleteProject("web", Store, name)},
        rn \in {deleteProject("native", Store, name)} :
       CommitBoth(rw, rn, [op |-> "deleteProject", name |-> name])

NextBoth ==
  \/ \E n \in ProjectNames : BothCreateProject(n)
  \/ \E n \in ProjectNames, path \in FilePaths, c \in Contents : BothWriteFile(n, path, c)
  \/ \E n \in ProjectNames, pair \in CopyPairs : BothCopyFile(n, pair)
  \/ \E n \in ProjectNames : BothDeleteProject(n)

SpecBoth == InitBoth /\ [][NextBoth]_vars



(***************************************************************************)
(* The native writeFile with its awaits told apart: between two of them    *)
(* other callers run, and see the device as the call has left it so far.   *)
(* The device writes a file's content in two parts.                        *)
(***************************************************************************)
AtomicContents == { <<"u">>, <<"v", "w">> }

\* What a file holds while writeAsStringAsync is under way
Partial(content) == SubstringTo(content, Len(content) - 1)

InitAtomic ==
  /\ platform = "native"
  /\ \E st \in InitialStores("native") :
       /\ webFileSystem = st.web
       /\ nativeFS = st.native
  /\ localStorage = <<>>
  /\ saveTimeout = 0
  /\ timers = {}
  /\ writing = [stage |-> "idle"]
  /\ now = 1
  /\ lastOp = [op |-> "none", name |-> <<>>]
  /\ InitAgent
  /\ InitUI

WritingFullPath == writing.projectPath \o writing.filePath

\* The call resolves (ok) or its catch block rethrows
WriteSettles(ok) ==
  /\ writing' = [stage |-> "idle"]
  /\ now' = now + 1
  /\ lastOp' = [op |-> "writeFile", name |-> writing.projectPath, path |-> writing.filePath,
                content |-> writing.content, ok |-> ok]

\* writeFile(projectPath, filePath, content) is called; `old` is what a read of
\* the path returned before the call
WriteCalled(root, path, content) ==
  /\ writing.stage = "idle"
  /\ now <= MaxOps
  /\ writing' = [stage |-> "called", projectPath |-> root, filePath |-> path,
                 content |-> content, old |-> readFile("native", Store, root, path)]
  /\ UNCHANGED <<platform, webFileSystem, nativeFS, saveTimeout, timers, localStorage,
                 now, lastOp>>
  /\ UNCHANGED <<runVars, uiVars>>

\* await this.ensureDirectoryExists(directory)
WriteEnsuresDirectory ==
  /\ writing.stage = "called"
  /\ \E fault \in {"none", "mkdir"} :
       \E fullPath \in {WritingFullPath} :
         \E r \in {NativeEnsureDirectoryExists(
                     nativeFS, SubstringTo(fullPath, LastIndexOf(fullPath, "/")), now, fault)} :
           /\ nativeFS' = r.fs
           /\ IF r.ok
              THEN /\ writing' = [writing EXCEPT !.stage = "ensured"]
                   /\ UNCHANGED <<now, lastOp>>
              ELSE WriteSettles(FALSE)
  /\ UNCHANGED <<platform, webFileSystem, saveTimeout, timers, localStorage>>
  /\ UNCHANGED <<runVars, uiVars>>

\* FileSystem.writeAsStringAsync(tempPath, content) has written the first part
WriteTempStarted ==
  /\ writing.stage = "ensured"
  /\ \E w \in {writeAsStringAsync(nativeFS, TempPath(WritingFullPath),
                                  Partial(writing.content), now)} :
       /\ nativeFS' = w.fs
       /\ IF w.ok
          THEN /\ writing' = [writing EXCEPT !.stage = "partial"]
               /\ UNCHANGED <<now, lastOp>>
          ELSE WriteSettles(FALSE)
  /\ UNCHANGED <<platform, webFileSystem, saveTimeout, timers, localStorage>>
  /\ UNCHANGED <<runVars, uiVars>>

\* await FileSystem.writeAsStringAsync(tempPath, content): it resolves, or the
\* device fails and leaves the part written
WriteTempSettles ==
  /\ writing.stage = "partial"
  /\ \E fault \in {"none", "write"} :
       IF fault = "write"
       THEN /\ WriteSettles(FALSE)
            /\ UNCHANGED nativeFS
       ELSE \E w \in {writeAsStringAsync(nativeFS, TempPath(WritingFullPath),
                                         writing.content, now)} :
              /\ nativeFS' = w.fs
              /\ IF w.ok
                 THEN /\ writing' = [writing EXCEPT !.stage = "written"]
                      /\ UNCHANGED <<now, lastOp>>
                 ELSE WriteSettles(FALSE)
  /\ UNCHANGED <<platform, webFileSystem, saveTimeout, timers, localStorage>>
  /\ UNCHANGED <<runVars, uiVars>>

\* await FileSystem.moveAsync({ from: tempPath, to: fullPath }), then the return
WriteMoves ==
  /\ writing.stage = "written"
  /\ \E fault \in {"none", "move"} :
       IF fault = "move"
       THEN /\ WriteSettles(FALSE)
            /\ UNCHANGED nativeFS
       ELSE \E m \in {moveAsync(nativeFS, TempPath(WritingFullPath), WritingFullPath)} :
              /\ nativeFS' = m.fs
              /\ WriteSettles(m.ok)
  /\ UNCHANGED <<platform, webFileSystem, saveTimeout, timers, localStorage>>
  /\ UNCHANGED <<runVars, uiVars>>

NextAtomic ==
  \/ \E root \in Roots, path \in FilePaths, c \in AtomicContents : WriteCalled(root, path, c)
  \/ WriteEnsuresDirectory
  \/ WriteTempStarted
  \/ WriteTempSettles
  \/ WriteMoves

SpecAtomic == InitAtomic /\ [][NextAtomic]_vars

(***************************************************************************)
(* The flat backend with its persistence: the operations that change the   *)
(* map, the flush timer firing, and the page being closed and loaded       *)
(* again.  A pending timer fires once its delay has passed with no other   *)
(* call, so two calls with no firing between them are closer than the      *)
(* delay.                                                                  *)
(***************************************************************************)
\* loadWebFileSystem(): the map the constructor starts from
loadWebFileSystem(storage) == IF storage = <<>> THEN <<>> ELSE storage[1]

\* The last two steps before this one (one, when the last was no FileStore call)
BurstBefore ==
  IF "prev" \in DOMAIN lastOp THEN <<lastOp.prev.op, lastOp.op>> ELSE <<lastOp.op>>

InitPersist ==
  /\ platform = "web"
  /\ \E st \in InitialStores("web") :
       /\ localStorage = IF st.web # <<>> THEN <<st.web>> ELSE <<>>
       /\ webFileSystem = loadWebFileSystem(localStorage)
       /\ nativeFS = st.native
  /\ saveTimeout = 0
  /\ timers = {}
  /\ writing = [stage |-> "idle"]
  /\ now = 1
  /\ lastOp = [op |-> "none", name |-> <<>>]
  /\ InitAgent
  /\ InitUI

\* The timer callback () => this.saveWebFileSystem(): localStorage.setItem stores
\* the serialized map, or throws (quota exceeded, storage disabled) and the
\* catch block logs a warning; nothing is thrown to a caller and no field of the
\* service is assigned
TimerFires(handle, setItemThrows) ==
  /\ handle \in timers
  /\ timers' = timers \ {handle}
  /\ localStorage' = IF setItemThrows THEN localStorage ELSE <<webFileSystem>>
  /\ lastOp' = [op |-> "flush", name |-> <<>>, ok |-> ~setItemThrows,
                serialized |-> webFileSystem, thrown |-> FALSE,
                before |-> Store, burst |-> BurstBefore]
  /\ UNCHANGED <<platform, webFileSystem, nativeFS, saveTimeout, writing, now>>
  /\ UNCHANGED <<runVars, uiVars>>

\* The page is closed, which drops the pending timers, and loaded again: the
\* constructor of the new service reads the map from localStorage
Restart ==
  /\ lastOp.op # "restart"
  /\ webFileSystem' = loadWebFileSystem(localStorage)
  /\ saveTimeout' = 0
  /\ timers' = {}
  /\ lastOp' = [op |-> "restart", name |-> <<>>, ok |-> TRUE, before |-> Store,
                pending |-> timers]
  /\ UNCHANGED <<platform, nativeFS, localStorage, writing, now>>
  /\ UNCHANGED <<runVars, uiVars>>

NextPersist ==
  \/ \E n \in ProjectNames : CreateProject(n)
  \/ \E root \in Roots, path \in FilePaths, c \in Contents : WriteFile(root, path, c)
  \/ \E n \in ProjectNames : DeleteProject(n)
  \/ \E root \in Roots, pair \in CopyPairs : CopyFile(root, pair)
  \/ \E handle \in timers, setItemThrows \in BOOLEAN : TimerFires(handle, setItemThrows)
  \/ Restart

SpecPersist == InitPersist /\ [][NextPersist]_vars

(***************************************************************************)
(* AgentCore: pure helpers                                                 *)
(***************************************************************************)
Retries == 3      \* callAI(prompt, retries = 3)
MaxRetries == 3   \* retryFileGeneration: const maxRetries = 3

UpperCase ==
  <<"A", "B", "C", "D", "E", "F", "G", "H", "I", "J", "K", "L", "M",
    "N", "O", "P", "Q", "R", "S", "T", "U", "V", "W", "X", "Y", "Z">>

LowerCase ==
  <<"a", "b", "c", "d", "e", "f", "g", "h", "i", "j", "k", "l", "m",
    "n", "o", "p", "q", "r", "s", "t", "u", "v", "w", "x", "y", "z">>

IsSpace(c) == c \in {" ", "\n", "\t"}

\* s.toLowerCase()
toLowerCase(s) ==
  [i \in 1..Len(s) |->
     IF \E k \in 1..26 : UpperCase[k] = s[i]
     THEN LowerCase[CHOOSE k \in 1..26 : UpperCase[k] = s[i]]
     ELSE s[i]]

\* s.replace(/\s+/g, '-'): each run of white space becomes one hyphen
HyphenateSpaces(s) ==
  LET Kept(pair) == ~(IsSpace(pair[1]) /\ IsSpace(pair[2])) IN
  Value({ [j \in 1..Len(kept) |-> IF IsSpace(kept[j][1]) THEN "-" ELSE kept[j][1]] :
          kept \in {SelectSeq([i \in 1..Len(s) |-> <<s[i], IF i > 1 THEN s[i - 1] ELSE "">>],
                              Kept)} })

\* structure.name.toLowerCase().replace(/\s+/g, '-')
Slug(name) == Value({ HyphenateSpaces(lower) : lower \in {toLowerCase(name)} })

\* s.trim()
TrimStart(s) ==
  IF \A i \in 1..Len(s) : IsSpace(s[i]) THEN <<>>
  ELSE SubSeq(s, CHOOSE i \in 1..Len(s) : ~IsSpace(s[i]) /\ \A j \in 1..(i - 1) : IsSpace(s[j]),
              Len(s))

TrimEnd(s) ==
  IF \A i \in 1..Len(s) : IsSpace(s[i]) THEN <<>>
  ELSE SubSeq(s, 1,
              CHOOSE i \in 1..Len(s) : ~IsSpace(s[i]) /\ \A j \in (i + 1)..Len(s) : IsSpace(s[j]))

Trim(s) == Value({ TrimEnd(t) : t \in {TrimStart(s)} })

\* The character U+0060, which a TLA+ string cannot hold
Backtick == "<backtick>"

Fence == <<Backtick, Backtick, Backtick>>

\* the 1-based place of the first occurrence of sub in s at or after i, 0 if none
FindFrom(s, sub, i) ==
  Value({ IF places = {} THEN 0 ELSE CHOOSE k \in places : \A m \in places : k <= m :
          places \in {{ k \in i..(Len(s) - Len(sub) + 1) :
                        SubSeq(s, k, k + Len(sub) - 1) = sub }} })

\* response.replace(/```[\s\S]*?\n/, ''): the first fence and what follows it up
\* to and including the next line break
StripOpeningFence(s) ==
  Value({ Value({ IF i = 0 \/ j = 0 THEN s
                  ELSE SubstringTo(s, i - 1) \o Substring(s, j) :
                  j \in {IF i = 0 THEN 0 ELSE FindFrom(s, <<"\n">>, i + 3)} }) :
          i \in {FindFrom(s, Fence, 1)} })

\* s.replace(/\n```$/, '')
StripClosingFence(s) ==
  IF Len(s) >= 4 /\ SubSeq(s, Len(s) - 3, Len(s)) = <<"\n">> \o Fence
  THEN SubstringTo(s, Len(s) - 4)
  ELSE s

\* The response stored as it came (a variant used to test the properties)
ResponseAsIs(response) == response

extractCodeFromResponse(response) ==
  Value({ Trim(closed) :
          closed \in { StripClosingFence(opened) :
                       opened \in {StripOpeningFence(response)} } })

\* data.f || fallback, for a field holding a string or an array
OrElse(data, f, fallback) ==
  IF f \in DOMAIN data /\ data[f] # <<>> THEN data[f] ELSE fallback

\* data.f || fallback, for a field holding an opaque text
OrElseText(data, f, fallback) ==
  IF f \in DOMAIN data /\ data[f] # "" THEN data[f] ELSE fallback

GeneratedProject ==
  <<"G", "e", "n", "e", "r", "a", "t", "e", "d", " ",
    "P", "r", "o", "j", "e", "c", "t">>

\* A parser that plans an entry file when the plan lists none (a variant used
\* to test the properties)
parseWithEntryFile(data, request) ==
  [name |-> OrElse(data, "name", GeneratedProject),
   description |-> OrElseText(data, "description", request.description),
   framework |-> OrElseText(data, "framework", request.framework),
   files |-> OrElse(data, "files", << [path |-> <<"x">>, type |-> "file"] >>),
   dependencies |-> OrElse(data, "dependencies", <<>>),
   devDependencies |-> OrElse(data, "devDependencies", <<>>),
   scripts |-> OrElse(data, "scripts", <<>>)]

parseProjectStructure(data, request) ==
  [name |-> OrElse(data, "name", GeneratedProject),
   description |-> OrElseText(data, "description", request.description),
   framework |-> OrElseText(data, "framework", request.framework),
   files |-> OrElse(data, "files", <<>>),
   dependencies |-> OrElse(data, "dependencies", <<>>),
   devDependencies |-> OrElse(data, "devDependencies", <<>>),
   scripts |-> OrElse(data, "scripts", <<>>)]

\* files.find(f => f.path.includes(dep)): its index, 0 when there is none
RECURSIVE FindFile(_, _, _)
FindFile(files, dep, i) ==
  IF i > Len(files) THEN 0
  ELSE IF Includes(files[i].path, dep) THEN i
  ELSE FindFile(files, dep, i + 1)

\* visit(file) of sortFilesByDependencies; acc holds `sorted` and `visited`
RECURSIVE Visit(_, _, _)
RECURSIVE VisitDependencies(_, _, _)
VisitDependencies(files, deps, acc) ==
  IF deps = <<>> THEN acc
  ELSE Value({ VisitDependencies(files, rest, visited) :
               rest \in {Tail(deps)},
               visited \in { IF k # 0 /\ files[k].path \notin acc.visited
                             THEN Visit(files, files[k], acc)
                             ELSE acc :
                             k \in {FindFile(files, Head(deps), 1)} } })

Visit(files, file, acc) ==
  IF file.path \in acc.visited THEN acc
  ELSE Value({ [after EXCEPT !.sorted = Append(@, file)] :
               after \in { IF "dependencies" \in DOMAIN file
                           THEN VisitDependencies(files, file.dependencies, marked)
                           ELSE marked :
                           marked \in {[acc EXCEPT !.visited = @ \cup {file.path}]} } })

RECURSIVE VisitAll(_, _, _)
VisitAll(files, i, acc) ==
  IF i > Len(files) THEN acc
  ELSE Value({ VisitAll(files, next, visited) :
               next \in {i + 1}, visited \in {Visit(files, files[i], acc)} })

\* The files in the order the plan lists them (a variant used to test the
\* properties)
FilesAsListed(files) == files

sortFilesByDependencies(files) ==
  VisitAll(files, 1, [sorted |-> <<>>, visited |-> {}]).sorted

\* structure.files.map(f => f.path)
PathsOf(files) == [i \in 1..Len(files) |-> files[i].path]

\* The prompt of createFileGenerationPrompt: the values its template interpolates
createFileGenerationPrompt(file, structure, completedFiles) ==
  [kind |-> "FILE_GENERATION",
   path |-> file.path,
   name |-> structure.name,
   framework |-> structure.framework,
   description |-> structure.description,
   dependencies |-> IF "dependencies" \in DOMAIN file THEN file.dependencies ELSE <<>>,
   completedFiles |-> completedFiles]

RECURSIVE ReadmeLines(_)
ReadmeLines(paths) ==
  IF paths = <<>> THEN <<>>
  ELSE <<"-", " ">> \o Head(paths)
         \o (IF Len(paths) > 1 THEN <<"\n">> ELSE <<>>) \o ReadmeLines(Tail(paths))

\* The three files integrateProject writes.  Of each JSON document only the parts
\* computed from the plan's name are kept; the README keeps its title and its
\* list of the planned paths.
PackageJsonName == <<"p", "a", "c", "k", "a", "g", "e", ".", "j", "s", "o", "n">>
AppJsonName == <<"a", "p", "p", ".", "j", "s", "o", "n">>
ReadmeName == <<"R", "E", "A", "D", "M", "E", ".", "m", "d">>

PackageJson(structure) == <<"{">> \o Slug(structure.name) \o <<"}">>

AppJson(structure) ==
  <<"{">> \o structure.name \o <<",">> \o Slug(structure.name) \o <<"}">>

generateReadme(structure) ==
  <<"#", " ">> \o structure.name \o <<"\n">> \o ReadmeLines(PathsOf(structure.files))


(***************************************************************************)
(* AgentCore.generateProject as a state machine.  The AI gateway (the call *)
(* mockAICall stands for) and the device are the environment: each gateway *)
(* call throws or returns data, each native write may fail.                *)
(***************************************************************************)
TodoRequest == [description |-> "todo app", projectType |-> "app", framework |-> "expo"]

Requests == {TodoRequest}

AppLayout ==
  <<"a", "p", "p", "/", "_", "l", "a", "y", "o", "u", "t", ".", "t", "s", "x">>

ButtonPath ==
  <<"c", "o", "m", "p", "o", "n", "e", "n", "t", "s", "/",
    "B", "u", "t", "t", "o", "n", ".", "t", "s", "x">>

TodoPlan ==
  [name |-> <<"T", "o", " ", "D", "o">>,
   description |-> "A todo app",
   framework |-> "expo",
   files |-> << [path |-> AppLayout, type |-> "file", dependencies |-> <<>>],
                [path |-> ButtonPath, type |-> "file", dependencies |-> <<>>] >>,
   dependencies |-> <<"expo", "react">>,
   devDependencies |-> <<"typescript">>,
   scripts |-> <<"dev">>]

FileA == [path |-> <<"A", ".", "t">>, type |-> "file", dependencies |-> <<>>]
FileB == [path |-> <<"B", ".", "t">>, type |-> "file", dependencies |-> << <<"A">> >>]
FileC == [path |-> <<"C", ".", "t">>, type |-> "file", dependencies |-> << <<"B">> >>]

Chain == <<FileA, FileB, FileC>>

\* The chain A <- B <- C in each of the six orders a plan can list it in
ChainPlans ==
  { [name |-> <<"C", "h">>, framework |-> "react-native",
     files |-> <<Chain[i], Chain[j], Chain[k]>>] :
      <<i, j, k>> \in { t \in (1..3) \X (1..3) \X (1..3) : Cardinality({t[1], t[2], t[3]}) = 3 } }

\* A plan with a directory spec and a file that integration writes too
MixedPlan ==
  [name |-> <<"M">>, framework |-> "game",
   files |-> << [path |-> <<"l", "i", "b">>, type |-> "directory"],
                [path |-> ReadmeName, type |-> "file"] >>]

\* A plan with no files field (and an empty name)
BarePlan == [name |-> <<>>]

PlanData == {TodoPlan, MixedPlan, BarePlan} \cup ChainPlans

\* What the gateway can return for a file: plain code, code in a markdown
\* fence, and the empty string
PlainResponse == <<"c">>
FencedResponse == Fence \o <<"t", "s", "\n", "c", "\n">> \o Fence
Responses == {PlainResponse, FencedResponse, <<>>}

ApiKeyNotConfigured == Err("API key not configured", <<>>, "")

\* The number of gateway call targets (the plan, each file) of one run in which
\* the environment induces failures
MaxFaultyTargets == 1

\* A callback told of phase changes only (a variant used to test the properties)
updateProgressOnPhaseChange(evs, progress) ==
  IF progressCallback /\ (evs = <<>> \/ evs[Len(evs)].phase # progress.phase)
  THEN Append(evs, progress)
  ELSE evs

\* updateProgress(progress)
updateProgress(evs, progress) == IF progressCallback THEN Append(evs, progress) ELSE evs

\* A catch block that rethrows without reporting (a variant used to test the
\* properties)
RejectSilently(error) ==
  /\ pc' = "rejected"
  /\ result' = [settled |-> "rejected", error |-> error]
  /\ UNCHANGED events

\* The catch block of generateProject: report the error, rethrow it
Reject(error) ==
  /\ events' = updateProgress(events,
                 [phase |-> "error", completedFiles |-> <<>>, totalFiles |-> 0,
                  message |-> "Project generation failed", error |-> error])
  /\ pc' = "rejected"
  /\ result' = [settled |-> "rejected", error |-> error]

\* A FileStore call made by the run, with result r
StoreCall(r, op) ==
  /\ webFileSystem' = r.st.web
  /\ nativeFS' = r.st.native
  /\ saveTimeout' = IF r.save THEN now ELSE saveTimeout
  /\ timers' = IF r.save THEN scheduleSaveWebFileSystem(timers, saveTimeout, now) ELSE timers
  /\ now' = IF r.ok THEN now + 1 ELSE now
  /\ lastOp' = op @@ [ok |-> r.ok]
  /\ UNCHANGED <<platform, localStorage, writing, uiVars>>

\* A loop that reports a file's last error and goes on to the next file (a
\* variant used to test the properties)
FileThrownSkipsFile(error) ==
  IF ~run.inRetry
  THEN /\ run' = [run EXCEPT !.inRetry = TRUE, !.retryI = 0, !.callI = 0]
       /\ pc' = "generating"
       /\ UNCHANGED <<events, result>>
  ELSE IF run.retryI = MaxRetries - 1
  THEN /\ events' = IF progressCallback
                    THEN Append(events,
                           [phase |-> "error", completedFiles |-> <<>>, totalFiles |-> 0,
                            message |-> "Project generation failed", error |-> error])
                    ELSE events
       /\ run' = [run EXCEPT !.fileIdx = @ + 1]
       /\ pc' = "nextFile"
       /\ UNCHANGED result
  ELSE /\ run' = [run EXCEPT !.retryI = @ + 1, !.callI = 0]
       /\ pc' = "generating"
       /\ UNCHANGED <<events, result>>

\* An error thrown while one file is generated or written: the first one enters
\* retryFileGeneration, the last one of its iterations is rethrown
FileThrown(error) ==
  IF ~run.inRetry
  THEN /\ run' = [run EXCEPT !.inRetry = TRUE, !.retryI = 0, !.callI = 0]
       /\ pc' = "generating"
       /\ UNCHANGED <<events, result>>
  ELSE IF run.retryI = MaxRetries - 1
  THEN /\ Reject(error)
       /\ UNCHANGED run
  ELSE /\ run' = [run EXCEPT !.retryI = @ + 1, !.callI = 0]
       /\ pc' = "generating"
       /\ UNCHANGED <<events, result>>

\* Whether a failure was already induced for the current call target
Faulty == run.callI > 0 \/ run.inRetry

MayFail == Faulty \/ ai.faulty < MaxFaultyTargets

\* The environment's record after it induced a failure.  `induced` is the
\* weight of the failures so far: 0 none, 1 gateway throws only and at most two
\* in a row, 2 anything more
Failed(env, level) ==
  [env EXCEPT !.faulty = IF Faulty THEN @ ELSE @ + 1,
              !.induced = IF @ > level THEN @ ELSE level]

InitRun ==
  /\ platform \in {"web", "native"}
  /\ webFileSystem = EmptyStore.web
  /\ nativeFS = EmptyStore.native
  /\ localStorage = <<>>
  /\ saveTimeout = 0
  /\ timers = {}
  /\ writing = [stage |-> "idle"]
  /\ now = 1
  /\ lastOp = [op |-> "none", name |-> <<>>]
  /\ InitAgent
  /\ InitUI

SetApiKey(key) ==
  /\ pc = "idle"
  /\ apiKey # key
  /\ apiKey' = key
  /\ UNCHANGED <<fsVars, uiVars, progressCallback, events, pc, run, result, ai>>

SetProgressCallback ==
  /\ pc = "idle"
  /\ ~progressCallback
  /\ progressCallback' = TRUE
  /\ UNCHANGED <<fsVars, uiVars, apiKey, events, pc, run, result, ai>>

GenerateProject(request) ==
  /\ pc = "idle"
  /\ IF apiKey \in {"undefined", ""}
     THEN /\ pc' = "rejected"
          /\ result' = [settled |-> "rejected", error |-> ApiKeyNotConfigured]
          /\ UNCHANGED <<events, run>>
     ELSE /\ events' = updateProgress(events,
                         [phase |-> "planning", completedFiles |-> <<>>, totalFiles |-> 0,
                          message |-> "Analyzing project requirements..."])
          /\ pc' = "planning"
          /\ run' = [request |-> request, callI |-> 0, inRetry |-> FALSE]
          /\ UNCHANGED result
  /\ UNCHANGED <<fsVars, uiVars, apiKey, progressCallback, ai>>

\* One gateway call of callAI(planningPrompt) throws
PlanCallThrows ==
  /\ pc = "planning"
  /\ MayFail
  /\ ai' = [Failed(ai, IF run.callI < Retries - 1 THEN 1 ELSE 2) EXCEPT !.calls = @ + 1]
  /\ IF run.callI = Retries - 1
     THEN /\ Reject(Err("Failed to plan project structure", <<>>, ""))
          /\ UNCHANGED run
     ELSE /\ run' = [run EXCEPT !.callI = @ + 1]
          /\ UNCHANGED <<events, pc, result>>
  /\ UNCHANGED <<fsVars, uiVars, apiKey, progressCallback>>

\* One gateway call of callAI(planningPrompt) returns data: the plan is parsed,
\* the project created, the files ordered
PlanCallReturns(data) ==
  /\ pc = "planning"
  /\ \E fault \in FaultsOf(platform, {"none", "mkdir"}) :
       \E structure \in {parseProjectStructure(data, run.request)} :
       \E r \in {createProject(platform, Store, structure.name, now, fault)} :
           /\ StoreCall(r, [op |-> "createProject", name |-> structure.name])
           /\ IF r.ok
              THEN /\ events' = updateProgress(events,
                                  [phase |-> "execution", completedFiles |-> <<>>,
                                   totalFiles |-> Len(structure.files),
                                   message |-> "Generating project files..."])
                   /\ run' = [request |-> run.request,
                              structure |-> structure,
                              projectPath |-> r.value,
                              sortedFiles |-> sortFilesByDependencies(structure.files),
                              fileIdx |-> 1,
                              completedFiles |-> <<>>,
                              inRetry |-> FALSE, retryI |-> 0, callI |-> 0,
                              content |-> <<>>]
                   /\ pc' = "nextFile"
                   /\ ai' = [ai EXCEPT !.calls = @ + 1]
                   /\ UNCHANGED result
              ELSE /\ Reject(r.error)
                   /\ ai' = [ai EXCEPT !.calls = @ + 1, !.induced = 2]
                   /\ UNCHANGED run
  /\ UNCHANGED <<apiKey, progressCallback>>

\* The head of the loop of executeGeneration, and what follows the loop
NextFile ==
  /\ pc = "nextFile"
  /\ IF run.fileIdx > Len(run.sortedFiles)
     THEN /\ events' = updateProgress(events,
                         [phase |-> "integration",
                          completedFiles |-> PathsOf(run.structure.files),
                          totalFiles |-> Len(run.structure.files),
                          message |-> "Integrating components and finalizing..."])
          /\ pc' = "package.json"
          /\ UNCHANGED <<run, ai>>
     ELSE LET file == run.sortedFiles[run.fileIdx] IN
          IF file.type = "file"
          THEN /\ events' = updateProgress(events,
                              [phase |-> "execution", currentFile |-> file.path,
                               completedFiles |-> run.completedFiles,
                               totalFiles |-> Len(run.structure.files),
                               message |-> "Generating ..."])
               /\ run' = [run EXCEPT !.inRetry = FALSE, !.retryI = 0, !.callI = 0,
                                     !.content = <<>>]
               /\ ai' = [ai EXCEPT
                           !.calls = 0,
                           !.prompt = createFileGenerationPrompt(
                                        file, run.structure, run.completedFiles)]
               /\ pc' = "generating"
          ELSE /\ run' = [run EXCEPT !.fileIdx = @ + 1]
               /\ UNCHANGED <<events, pc, ai>>
  /\ UNCHANGED <<fsVars, uiVars, apiKey, progressCallback, result>>

CurrentFile == run.sortedFiles[run.fileIdx]

FailedToGenerate == Err("Failed to generate content for ", CurrentFile.path, "")

\* One gateway call of callAI(prompt) for the current file throws
FileCallThrows ==
  /\ pc = "generating"
  /\ MayFail
  /\ ai' = [Failed(ai, IF ~run.inRetry /\ run.callI < Retries - 1 THEN 1 ELSE 2)
              EXCEPT !.calls = @ + 1]
  /\ IF run.callI = Retries - 1
     THEN FileThrown(FailedToGenerate)
     ELSE /\ run' = [run EXCEPT !.callI = @ + 1]
          /\ UNCHANGED <<events, pc, result>>
  /\ UNCHANGED <<fsVars, uiVars, apiKey, progressCallback>>

\* One gateway call of callAI(prompt) for the current file returns response
FileCallReturns(response) ==
  /\ pc = "generating"
  /\ response = <<>> => MayFail
  /\ LET env == IF response = <<>> THEN Failed(ai, 2) ELSE ai IN
     ai' = [env EXCEPT
              !.calls = @ + 1,
              !.thirdTry = IF ~run.inRetry /\ run.callI = Retries - 1
                           THEN Append(@, [path |-> CurrentFile.path, response |-> response])
                           ELSE @]
  /\ IF response = <<>>
     THEN FileThrown(FailedToGenerate)
     ELSE /\ run' = [run EXCEPT !.content = extractCodeFromResponse(response)]
          /\ pc' = "writing"
          /\ UNCHANGED <<events, result>>
  /\ UNCHANGED <<fsVars, uiVars, apiKey, progressCallback>>

\* fileSystemService.writeFile(projectPath, file.path, content), then
\* completedFiles.push(file.path)
WriteGenerated ==
  /\ pc = "writing"
  /\ \E fault \in FaultsOf(platform, IF MayFail THEN {"none", "move"} ELSE {"none"}) :
       \E r \in {writeFile(platform, Store, run.projectPath, CurrentFile.path,
                          run.content, now, fault)} :
           /\ StoreCall(r, [op |-> "writeFile", name |-> run.projectPath,
                            path |-> CurrentFile.path, content |-> run.content])
           /\ IF r.ok
              THEN /\ run' = [run EXCEPT !.completedFiles = Append(@, CurrentFile.path),
                                         !.fileIdx = @ + 1]
                   /\ pc' = "nextFile"
                   /\ UNCHANGED <<events, result, ai>>
              ELSE /\ FileThrown(r.error)
                   /\ ai' = Failed(ai, 2)
  /\ UNCHANGED <<apiKey, progressCallback>>

\* One write of integrateProject; `next` is where the call stands after it
IntegrationWrite(at, name, content, next) ==
  /\ pc = at
  /\ \E fault \in FaultsOf(platform, {"none", "move"}), text \in {content} :
       \E r \in {writeFile(platform, Store, run.projectPath, name, text, now, fault)} :
           /\ StoreCall(r, [op |-> "writeFile", name |-> run.projectPath,
                            path |-> name, content |-> text])
           /\ IF ~r.ok
              THEN /\ Reject(r.error)
                   /\ ai' = [ai EXCEPT !.induced = 2]
              ELSE IF next = "resolved"
              THEN /\ events' = updateProgress(events,
                                  [phase |-> "complete",
                                   completedFiles |-> PathsOf(run.structure.files),
                                   totalFiles |-> Len(run.structure.files),
                                   message |-> "Project generation complete!"])
                   /\ pc' = "resolved"
                   /\ result' = [settled |-> "resolved", value |-> run.projectPath]
                   /\ UNCHANGED ai
              ELSE /\ pc' = next
                   /\ UNCHANGED <<events, result, ai>>
  /\ UNCHANGED <<apiKey, progressCallback, run>>

\* An integration that writes no app descriptor (a variant used to test the
\* properties)
IntegrateWithoutAppJson ==
  IntegrationWrite("package.json", PackageJsonName, PackageJson(run.structure), "README.md")

IntegratePackageJson ==
  IntegrationWrite("package.json", PackageJsonName, PackageJson(run.structure),
                   IF run.structure.framework = "expo" THEN "app.json" ELSE "README.md")

IntegrateAppJson ==
  IntegrationWrite("app.json", AppJsonName, AppJson(run.structure), "README.md")

IntegrateReadme ==
  IntegrationWrite("README.md", ReadmeName, generateReadme(run.structure), "resolved")

NextRun ==
  \/ \E key \in {"", "test-api-key"} : SetApiKey(key)
  \/ SetProgressCallback
  \/ \E request \in Requests : GenerateProject(request)
  \/ PlanCallThrows
  \/ \E data \in PlanData : PlanCallReturns(data)
  \/ NextFile
  \/ FileCallThrows
  \/ \E response \in Responses : FileCallReturns(response)
  \/ WriteGenerated
  \/ IntegratePackageJson
  \/ IntegrateAppJson
  \/ IntegrateReadme

SpecRun == InitRun /\ [][NextRun]_vars


(***************************************************************************)
(* sortFilesByDependencies on its own: the first statement of              *)
(* executeGeneration, for every list of at most MaxFiles specs over three  *)
(* paths, with dependency fragments that match one path, two paths, the    *)
(* spec's own path, or no path, cycles included.                           *)
(***************************************************************************)
MaxFiles == 3

SortPaths == {<<"a">>, <<"a", "b">>, <<"c">>}

Fragments == {<<"a">>, <<"b">>, <<"c">>, <<"z">>}

SortSpecs ==
  { [path |-> p, type |-> "file"] : p \in SortPaths }
    \cup { [path |-> p, type |-> "file", dependencies |-> <<d>>] :
             p \in SortPaths, d \in Fragments }
    \cup { [path |-> p, type |-> "file", dependencies |-> <<<<"z">>, <<"a">>>>] :
             p \in SortPaths }

SortInputs == UNION { [1..n -> SortSpecs] : n \in 0..MaxFiles }

InitSort ==
  /\ platform = "web"
  /\ webFileSystem = EmptyStore.web
  /\ nativeFS = EmptyStore.native
  /\ localStorage = <<>>
  /\ saveTimeout = 0
  /\ timers = {}
  /\ writing = [stage |-> "idle"]
  /\ now = 1
  /\ lastOp = [op |-> "none", name |-> <<>>]
  /\ apiKey = "test-api-key"
  /\ progressCallback = FALSE
  /\ events = <<>>
  /\ pc = "execution"
  /\ \E files \in SortInputs : run = [structure |-> [files |-> files]]
  /\ result = [settled |-> "pending"]
  /\ ai = [calls |-> 0, induced |-> 0, faulty |-> 0, thirdTry |-> <<>>,
           prompt |-> [kind |-> "none"]]
  /\ InitUI

\* const sortedFiles = this.sortFilesByDependencies(structure.files)
SortFiles ==
  /\ pc = "execution"
  /\ run' = [structure |-> run.structure,
             sortedFiles |-> sortFilesByDependencies(run.structure.files)]
  /\ pc' = "sorted"
  /\ UNCHANGED <<fsVars, apiKey, progressCallback, events, result, ai, uiVars>>

NextSort == SortFiles

SpecSort == InitSort /\ [][NextSort]_vars

(***************************************************************************)
(* The useAgent hook on top of AgentCore.  Two components render the hook  *)
(* and share the one AgentCore: `hook` is the state of one of them, null   *)
(* being the empty sequence; the other component is the environment.       *)
(* hook.registered tells whether the callback AgentCore holds is this      *)
(* hook's handleProgress, hook.handled how many events it was called with. *)
(***************************************************************************)
\* The plans the gateway returns in the runs the hook starts
HookPlans == {TodoPlan, BarePlan}

\* handleProgress(progress): the state the hook renders after it
handleProgress(h, progress) ==
  IF progress.phase = "error"
  THEN [h EXCEPT !.progress = <<progress>>, !.error = <<progress.error>>,
                 !.isGenerating = FALSE]
  ELSE IF progress.phase = "complete"
  THEN [h EXCEPT !.progress = <<progress>>, !.isGenerating = FALSE]
  ELSE [h EXCEPT !.progress = <<progress>>]

\* initializeAgent(apiKey) of this hook
InitializeAgent(key) ==
  /\ pc = "idle"
  /\ hook.call # "inFlight"
  /\ apiKey' = key
  /\ progressCallback' = TRUE
  /\ hook' = [hook EXCEPT !.registered = TRUE, !.error = <<>>]
  /\ UNCHANGED <<fsVars, events, pc, run, result, ai, currentPreview>>

\* initializeAgent(apiKey) of the other component's hook: AgentCore holds that
\* hook's callback from now on
OtherInitializeAgent(key) ==
  /\ pc = "idle"
  /\ hook.call # "inFlight"
  /\ apiKey' = key
  /\ progressCallback' = TRUE
  /\ hook' = [hook EXCEPT !.registered = FALSE]
  /\ UNCHANGED <<fsVars, events, pc, run, result, ai, currentPreview>>

\* generateProject(request) of the hook up to its call of
\* agentCore.generateProject, which is the step GenerateProject (a step
\* GenerateProject with no call of the hook in flight is the other component's)
HookGenerateProject ==
  /\ pc = "idle"
  /\ hook.call = "none"
  /\ hook' = [hook EXCEPT !.isGenerating = TRUE, !.error = <<>>, !.progress = <<>>,
                          !.call = "inFlight"]
  /\ UNCHANGED <<fsVars, runVars, currentPreview>>

\* updateProgress calls the callback it holds with the event it was given
HandleProgress ==
  /\ hook.registered
  /\ hook.handled < Len(events)
  /\ hook' = [handleProgress(hook, events[hook.handled + 1]) EXCEPT !.handled = @ + 1]
  /\ UNCHANGED <<fsVars, runVars, currentPreview>>

\* The call of agentCore.generateProject has settled: the rest of the hook's
\* try block, or its catch block
HookSettles ==
  /\ hook.call = "inFlight"
  /\ pc \in {"resolved", "rejected"}
  /\ hook.registered => hook.handled = Len(events)
  /\ hook' = IF pc = "resolved"
             THEN [hook EXCEPT !.currentProject = <<result.value>>, !.call = "resolved"]
             ELSE [hook EXCEPT !.error = <<result.error>>, !.isGenerating = FALSE,
                               !.call = "rejected"]
  /\ UNCHANGED <<fsVars, runVars, currentPreview>>

NextHook ==
  \/ \E key \in {"", "test-api-key"} : InitializeAgent(key)
  \/ \E key \in {"", "test-api-key"} : OtherInitializeAgent(key)
  \/ HookGenerateProject
  \/ \E request \in Requests : GenerateProject(request)
  \/ HandleProgress
  \/ HookSettles
  \/ PlanCallThrows
  \/ \E data \in HookPlans : PlanCallReturns(data)
  \/ NextFile
  \/ FileCallThrows
  \/ \E response \in Responses : FileCallReturns(response)
  \/ WriteGenerated
  \/ IntegratePackageJson
  \/ IntegrateAppJson
  \/ IntegrateReadme

SpecHook == InitRun /\ [][NextHook]_vars

(***************************************************************************)
(* PreviewEngine on top of the file store.  A bundle URL is kept as the    *)
(* kind of bundle it names; its random id is left out.                     *)
(***************************************************************************)
PreviewPaths == {<<"x">>, PackageJsonName}

PreviewContents == {<<"u">>, <<"{", "}">>}

PreviewConfigs ==
  [mode : {"web", "game"}, entryPoint : {<<"x">>}, hotReload : BOOLEAN]

\* Whether JSON.parse(text) returns: of the texts of the model, the ones in braces
JsonParses(text) == Len(text) >= 2 /\ text[1] = "{" /\ text[Len(text)] = "}"

\* createWebBundleConfig(projectPath, config)
createWebBundleConfig(plat, st, projectPath, config) ==
  Value({ IF ~r.ok THEN r
          ELSE IF ~JsonParses(r.value)
          THEN [ok |-> FALSE, error |-> Err("SyntaxError", <<>>, "")]
          ELSE [ok |-> TRUE, value |-> [entry |-> config.entryPoint, platform |-> "web"]] :
          r \in {readFile(plat, st, projectPath, PackageJsonName)} })

\* startWebPreview(projectPath, config)
startWebPreview(plat, st, projectPath, config) ==
  Value({ IF ~entry.ok
          THEN [ok |-> FALSE, error |-> Err("Web preview failed", <<>>, entry.error)]
          ELSE Value({ IF ~bundleConfig.ok
                       THEN [ok |-> FALSE,
                             error |-> Err("Web preview failed", <<>>, bundleConfig.error)]
                       ELSE [ok |-> TRUE, value |-> "http://localhost:8081/bundle/"] :
                       bundleConfig \in {createWebBundleConfig(plat, st, projectPath, config)} }) :
          entry \in {readFile(plat, st, projectPath, config.entryPoint)} })

\* startGamePreview(projectPath, config): createGameConfig and loadGameAssets
\* catch what they throw
startGamePreview(plat, st, projectPath, config) ==
  Value({ IF ~entry.ok
          THEN [ok |-> FALSE, error |-> Err("Game preview failed", <<>>, entry.error)]
          ELSE [ok |-> TRUE, value |-> "http://localhost:8081/game/"] :
          entry \in {readFile(plat, st, projectPath, config.entryPoint)} })

\* getPreviewStatus()
getPreviewStatus(preview) ==
  IF preview.set
  THEN [isActive |-> TRUE, mode |-> preview.config.mode, projectPath |-> preview.projectPath]
  ELSE [isActive |-> FALSE]

\* currentPreview after startPreview(projectPath, config), r being what
\* startWebPreview or startGamePreview returned or threw
PreviewOf(r, projectPath, config) ==
  IF r.ok
  THEN [set |-> TRUE, projectPath |-> projectPath, config |-> config, bundleUrl |-> r.value]
  ELSE [set |-> TRUE, projectPath |-> projectPath, config |-> config]

NoActivePreview == Err("No active preview to update", <<>>, "")

StartPreview(projectPath, config) ==
  /\ UNCHANGED <<platform, webFileSystem, nativeFS, saveTimeout, timers, localStorage,
                 writing, now, runVars, hook>>
  /\ \E r \in {IF config.mode = "web"
                THEN startWebPreview(platform, Store, projectPath, config)
                ELSE startGamePreview(platform, Store, projectPath, config)} :
       /\ currentPreview' = PreviewOf(r, projectPath, config)
       /\ lastOp' = [op |-> "startPreview", name |-> projectPath, ok |-> r.ok]

StopPreview ==
  /\ currentPreview' = [set |-> FALSE]
  /\ lastOp' = [op |-> "stopPreview", name |-> <<>>, ok |-> TRUE]
  /\ UNCHANGED <<platform, webFileSystem, nativeFS, saveTimeout, timers, localStorage,
                 writing, now, runVars, hook>>

\* Whether the last call was a startPreview that threw
AfterFailedStart == lastOp.op = "startPreview" /\ ~lastOp.ok

\* updatePreview(filePath, content)
UpdatePreview(filePath, content) ==
  /\ currentPreview.set => now <= MaxOps
  /\ IF ~currentPreview.set
     THEN /\ lastOp' = [op |-> "updatePreview", name |-> <<>>, ok |-> FALSE,
                        error |-> NoActivePreview, before |-> Store,
                        afterFailedStart |-> AfterFailedStart]
          /\ UNCHANGED <<platform, webFileSystem, nativeFS, saveTimeout, timers,
                         localStorage, writing, now, runVars, uiVars>>
     ELSE \E fault \in FaultsOf(platform, {"none", "move"}) :
            \E r \in {writeFile(platform, Store, currentPreview.projectPath, filePath,
                               content, now, fault)} :
              /\ Commit(r)
              /\ lastOp' = [op |-> "updatePreview", name |-> currentPreview.projectPath,
                            ok |-> r.ok,
                            error |-> IF r.ok THEN Err("", <<>>, "")
                                      ELSE Err("Failed to update preview", <<>>, r.error),
                            before |-> Store, afterFailedStart |-> AfterFailedStart]

NextPreview ==
  \/ \E n \in ProjectNames : CreateProject(n)
  \/ \E root \in Roots, path \in PreviewPaths, c \in PreviewContents : WriteFile(root, path, c)
  \/ \E root \in Roots, config \in PreviewConfigs : StartPreview(root, config)
  \/ StopPreview
  \/ \E path \in PreviewPaths, c \in PreviewContents : UpdatePreview(path, c)

SpecPreview == InitFS /\ [][NextPreview]_vars

(***************************************************************************)
(* Properties of the file store (checked under SpecFS)                     *)
(***************************************************************************)
RECURSIVE JoinPath(_)
JoinPath(segs) ==
  IF segs = <<>> THEN <<>>
  ELSE IF Len(segs) = 1 THEN segs[1]
  ELSE segs[1] \o <<"/">> \o JoinPath(Tail(segs))

\* The (relative path, kind) of every entry the store holds beneath a project root
StoredBeneath(plat, st, root) ==
  IF plat = "web"
  THEN LET prefix == normalizeWebPath(root) \o <<"/">> IN
       { [path |-> Substring(st.web[i].path, Len(prefix)), type |-> st.web[i].type] :
           i \in { j \in 1..Len(st.web) : StartsWith(st.web[j].path, prefix) } }
  ELSE { [path |-> JoinPath(SubSeq(q, Len(Segments(root)) + 1, Len(q))),
          type |-> st.native[q].type] :
           q \in { r \in DOMAIN st.native : IsUnder(r, Segments(root)) } }

\* The (relative path, kind) of every entry listFiles returns
Listed(plat, st, root) ==
  Value({ IF r.ok
          THEN { [path |-> r.value[i].path, type |-> r.value[i].type] : i \in 1..Len(r.value) }
          ELSE {} :
          r \in {listFiles(plat, st, root)} })

\* C1: after a writeFile(root, path, content) that resolved, readFile(root, path)
\* returns exactly content (the empty string included), whatever the path held
\* before: the last write wins.
C1_WriteThenRead ==
  (lastOp.op = "writeFile" /\ lastOp.ok) =>
    readFile(platform, Store, lastOp.name, lastOp.path)
      = [ok |-> TRUE, value |-> lastOp.content]

\* C1 witness: a write of the empty string over a file that held other content
C1_Witness ==
  /\ lastOp.op = "writeFile" /\ lastOp.ok
  /\ lastOp.content = <<>>
  /\ readFile(platform, lastOp.before, lastOp.name, lastOp.path)
       = [ok |-> TRUE, value |-> <<"u">>]
  /\ readFile(platform, Store, lastOp.name, lastOp.path).ok

\* C9: after deleteProject(name), readFile of any path under the project and
\* listFiles of its root fail with a not-found error, and a second
\* deleteProject(name) resolves and changes nothing.
C9_DeleteThenNotFound ==
  lastOp.op = "deleteProject" =>
    LET root == ProjectRoot(platform, lastOp.name) IN
    /\ lastOp.ok
    /\ \A path \in FilePaths : ~readFile(platform, Store, root, path).ok
    /\ ~listFiles(platform, Store, root).ok
    /\ (lastOp.prev = [op |-> "deleteProject", name |-> lastOp.name]
          => Store = lastOp.before)

\* C10: listFiles(root) returns an entry, with the stored kind, for every file
\* and directory stored beneath root at any depth.
C10_ListsEveryEntry ==
  \A root \in Roots : StoredBeneath(platform, Store, root) \subseteq Listed(platform, Store, root)

\* C12: listFiles(root) never returns two entries with the same path, and never
\* an entry that denotes the project root itself (a relative path with no
\* segment).
C12_ListingDistinct ==
  \A root \in Roots :
    \A r \in {listFiles(platform, Store, root)} :
      r.ok =>
        /\ \A i, j \in 1..Len(r.value) : i # j => r.value[i].path # r.value[j].path
        /\ \A i \in 1..Len(r.value) : Segments(r.value[i].path) # <<>>

\* The names listProjects returns
ProjectsListed(plat, st) ==
  Value({ IF r.ok THEN { r.value[i] : i \in 1..Len(r.value) } ELSE {} :
          r \in {listProjects(plat, st, now, "none")} })

\* C13: the result of listProjects right after a createProject(name) that
\* resolved contains name exactly once, whatever the store held before.
C13_CreatedListedOnce ==
  (lastOp.op = "createProject" /\ lastOp.ok) =>
    \A r \in {listProjects(platform, Store, now, "none")} :
      /\ r.ok
      /\ Cardinality({ i \in 1..Len(r.value) : r.value[i] = lastOp.name }) = 1

\* C13 witness: the project created existed already, a file was written just
\* before, and the listing names it
C13_Witness ==
  /\ lastOp.op = "createProject" /\ lastOp.ok
  /\ lastOp.prev.op = "writeFile"
  /\ lastOp.name \in ProjectsListed(platform, lastOp.before)
  /\ lastOp.name \in ProjectsListed(platform, Store)

\* The entries of kind directory a store holds, with their metadata
DirectoryEntries(plat, st) ==
  IF plat = "web"
  THEN { st.web[i] : i \in { j \in 1..Len(st.web) : st.web[j].type = "directory" } }
  ELSE { <<q, st.native[q]>> : q \in { r \in DOMAIN st.native : st.native[r].type = "directory" } }

\* C14: createProject(name) for a project that already exists leaves the
\* existing content intact: every file readable under the project before the
\* call is readable with the same content after it, and the directory entries
\* that existed are not rewritten.
C14_CreateKeepsContent ==
  (/\ lastOp.op = "createProject" /\ lastOp.ok
   /\ lastOp.name \in ProjectsListed(platform, lastOp.before)) =>
    /\ \A path \in FilePaths :
         \A was \in {readFile(platform, lastOp.before,
                              ProjectRoot(platform, lastOp.name), path)} :
           was.ok => readFile(platform, Store, ProjectRoot(platform, lastOp.name), path) = was
    /\ DirectoryEntries(platform, lastOp.before) \subseteq DirectoryEntries(platform, Store)

\* C15: every file stored beneath a project root has each of its ancestor
\* paths beneath the root stored as a directory entry (so a write of 'a/b/c'
\* leaves 'a' and 'a/b' as directories).
C15_AncestorsStored ==
  \A root \in Roots :
    \A stored \in {StoredBeneath(platform, Store, root)} :
      \A e \in stored :
        e.type = "file" =>
          \A segs \in {Segments(e.path)} :
            \A k \in 1..(Len(segs) - 1) :
              [path |-> JoinPath(SubSeq(segs, 1, k)), type |-> "directory"] \in stored

\* The error of a readFile that found no file: thrown as such by the flat branch,
\* wrapped by the catch block of the native branch
NotFound(error) ==
  error.msg = "File does not exist" \/ error.cause = "File does not exist"

\* C20: readFile(root, path) fails with a not-found error whenever the path is
\* absent or names a directory.
C20_ReadNotFound ==
  \A root \in Roots :
    \A stored \in {StoredBeneath(platform, Store, root)} :
      \A path \in FilePaths :
        [path |-> path, type |-> "file"] \notin stored =>
          \A r \in {readFile(platform, Store, root, path)} : ~r.ok /\ NotFound(r.error)

\* The error of a copyFile whose source is no file
SourceNotFound(error) ==
  error.msg = "Source file does not exist" \/ error.cause = "Source file does not exist"

\* C21: copyFile(src, dst) fails with a not-found error whenever src does not
\* resolve to a file, and then no entry of the store is created or modified.
C21_CopyWithoutSource ==
  (/\ lastOp.op = "copyFile"
   /\ [path |-> lastOp.path, type |-> "file"]
        \notin StoredBeneath(platform, lastOp.before, lastOp.name)) =>
    /\ ~lastOp.ok
    /\ \A r \in {copyFile(platform, lastOp.before, lastOp.name \o lastOp.path,
                          lastOp.name \o lastOp.dest, now - 1, "none")} :
         ~r.ok /\ SourceNotFound(r.error)
    /\ Store = lastOp.before

\* C28: deleteProject(name) leaves every other project as it was, a project
\* whose name begins with name included: its entries, the content of its
\* files, and its place in listProjects.
C28_DeleteLeavesOthers ==
  lastOp.op = "deleteProject" =>
    \A n \in ProjectNames \ {lastOp.name} :
      \A root \in {ProjectRoot(platform, n)} :
        /\ StoredBeneath(platform, Store, root) = StoredBeneath(platform, lastOp.before, root)
        /\ \A path \in FilePaths :
             readFile(platform, Store, root, path) = readFile(platform, lastOp.before, root, path)
        /\ n \in ProjectsListed(platform, lastOp.before) => n \in ProjectsListed(platform, Store)

(***************************************************************************)
(* Properties of the two backends side by side (checked under SpecBoth)    *)
(***************************************************************************)
\* C11: after the same createProject, writeFile, copyFile and deleteProject
\* calls on the native and on the flat backend, listFiles of every project root
\* returns the same entries (relative path and kind) on both, and listProjects
\* the same names.
C11_BackendsAgree ==
  /\ \A n \in ProjectNames :
       Listed("web", Store, ProjectRoot("web", n))
         = Listed("native", Store, ProjectRoot("native", n))
  /\ ProjectsListed("web", Store) = ProjectsListed("native", Store)

(***************************************************************************)
(* Properties of a native write in progress (checked under SpecAtomic)     *)
(***************************************************************************)
\* C16: on the native backend a read of a path made at any point while a
\* writeFile to that path is in progress returns what it returned before the
\* call (the previous content, or the failure when there was no file) or the
\* complete new content, never a part of it.
C16_NoPartialRead ==
  writing.stage # "idle" =>
    readFile("native", Store, writing.projectPath, writing.filePath)
      \in {writing.old, [ok |-> TRUE, value |-> writing.content]}

\* C16 witness: the temp file holds the first part of the new content while
\* the path still holds the previous, different content
C16_Witness ==
  /\ writing.stage = "partial"
  /\ writing.old = [ok |-> TRUE, value |-> <<"u">>]
  /\ writing.content = <<"v", "w">>
  /\ readAsStringAsync(nativeFS, TempPath(WritingFullPath)) = [ok |-> TRUE, value |-> <<"v">>]
  /\ readFile("native", Store, writing.projectPath, writing.filePath) = writing.old

(***************************************************************************)
(* Properties of the flat backend's persistence (checked under SpecPersist) *)
(***************************************************************************)
Mutations == {"createProject", "writeFile", "deleteProject", "copyFile"}

\* C17: when a debounced flush fails, the in-memory map is unchanged, and the
\* failure is not swallowed: it is thrown on, to be reported to the caller.
C17_FlushFailureSurfaced ==
  (lastOp.op = "flush" /\ ~lastOp.ok) =>
    /\ webFileSystem = lastOp.before.web
    /\ lastOp.thrown

\* C18: when the store is torn down and loaded again, the map loaded is the
\* map as the last write before the teardown left it: no write is lost.
C18_LastWritePersisted ==
  lastOp.op = "restart" => webFileSystem = lastOp.before.web

\* C19: at most one flush timer is pending at any time; after a call that
\* changed the map the pending timer is the one that call set; and when the
\* timer fires, the one serialization holds the whole map, with every change of
\* the burst, and no other timer is left to fire.
C19_OneFlushPerBurst ==
  /\ Cardinality(timers) <= 1
  /\ (lastOp.op \in Mutations /\ lastOp.ok) => timers = {saveTimeout}
  /\ lastOp.op = "flush" =>
       /\ timers = {}
       /\ lastOp.serialized = webFileSystem
       /\ lastOp.ok => localStorage = <<webFileSystem>>

\* C19 witness: a flush that follows two changes with no flush between them,
\* and stores both
C19_Witness ==
  /\ lastOp.op = "flush" /\ lastOp.ok
  /\ lastOp.burst = <<"createProject", "writeFile">>
  /\ \E i, j \in 1..Len(webFileSystem) :
       /\ webFileSystem[i].modificationTime = 1
       /\ webFileSystem[j].modificationTime = 2
  /\ localStorage = <<webFileSystem>>

(***************************************************************************)
(* Properties of a generation run (checked under SpecRun)                  *)
(***************************************************************************)
Phases == [i \in 1..Len(events) |-> events[i].phase]

LastEvent == events[Len(events)]

Planned == "structure" \in DOMAIN run

\* The run was rejected by the failure of one file of the plan
FileFailed == pc = "rejected" /\ Planned /\ run.fileIdx <= Len(run.sortedFiles)

Stored(path) == readFile(platform, Store, run.projectPath, path)

\* C2: when the generation of one file fails for good, the run ends in phase
\* error and the completedFiles of the error event are exactly the files
\* generated before the failing one, in generation order.
C2_ErrorCarriesCompleted ==
  (FileFailed /\ progressCallback) =>
    /\ LastEvent.phase = "error"
    /\ LastEvent.completedFiles = run.completedFiles

\* C3: for any single planned file the orchestrator makes at most 3 gateway
\* attempts, the first included, before the file's failure is fatal.
C3_AtMostThreeAttempts ==
  (Planned /\ pc \in {"generating", "writing", "rejected"}) => ai.calls <= 3

\* The code a response carries, told from the responses themselves
CodeOf(response) == IF response = FencedResponse THEN <<"c">> ELSE response

\* What integrateProject leaves at a path it writes
IntegrationWrites(path) ==
  \/ path \in {PackageJsonName, ReadmeName}
  \/ path = AppJsonName /\ run.structure.framework = "expo"

IntegrationContent(path) ==
  IF path = PackageJsonName THEN PackageJson(run.structure)
  ELSE IF path = AppJsonName THEN AppJson(run.structure)
  ELSE generateReadme(run.structure)

\* The only failures of the run so far are gateway calls that threw, at most two
\* in a row
OnlyShortThrows == ai.induced <= 1

\* C4 as stated: when the gateway throws twice and returns on the third attempt
\* for some file (and nothing else fails), the run ends in complete and the
\* store holds for that file exactly what the third attempt returned.
C4_StoresThirdResponse ==
  \A i \in 1..Len(ai.thirdTry) :
    (OnlyShortThrows /\ pc \in {"resolved", "rejected"}) =>
      /\ pc = "resolved"
      /\ Stored(ai.thirdTry[i].path) = [ok |-> TRUE, value |-> ai.thirdTry[i].response]

\* C4 amended: when the gateway throws twice and returns a non-empty text on the
\* third attempt for some file (and nothing else fails), the run does not end in
\* error, the file is written with the code extracted from that text (markdown
\* fence removed, trimmed), and at complete the store holds that code for the
\* file unless integration wrote the same path.
C4_StoresThirdCode ==
  \A i \in 1..Len(ai.thirdTry) :
    LET t == ai.thirdTry[i] IN
    OnlyShortThrows =>
      /\ pc # "rejected"
      /\ (pc = "nextFile" /\ i = Len(ai.thirdTry) /\ run.completedFiles # <<>>
            /\ run.completedFiles[Len(run.completedFiles)] = t.path)
           => Stored(t.path) = [ok |-> TRUE, value |-> CodeOf(t.response)]
      /\ pc = "resolved" =>
           Stored(t.path) = [ok |-> TRUE,
                             value |-> IF IntegrationWrites(t.path)
                                       THEN IntegrationContent(t.path)
                                       ELSE CodeOf(t.response)]

C4_Witness ==
  /\ pc = "resolved"
  /\ OnlyShortThrows
  /\ \E i \in 1..Len(ai.thirdTry) :
       /\ ai.thirdTry[i].response = FencedResponse
       /\ ~IntegrationWrites(ai.thirdTry[i].path)

IsChain(files) ==
  Len(files) = 3 /\ {files[i] : i \in 1..3} = {FileA, FileB, FileC}

ChainPaths == PathsOf(Chain)

\* C5: for the chain A <- B <- C, in whatever order the plan lists it, the files
\* are generated in the order A, B, C, and the completed files passed to the
\* gateway when C is generated are exactly [A, B].
C5_ChainOrder ==
  (Planned /\ IsChain(run.structure.files)) =>
    /\ PathsOf(run.sortedFiles) = ChainPaths
    /\ run.completedFiles = SubSeq(ChainPaths, 1, Len(run.completedFiles))
    /\ pc \in {"generating", "writing"} =>
         /\ ai.prompt.path = ChainPaths[Len(run.completedFiles) + 1]
         /\ ai.prompt.completedFiles = run.completedFiles
         /\ ai.prompt.path = FileC.path => ai.prompt.completedFiles = <<FileA.path, FileB.path>>

C5_Witness ==
  /\ Planned
  /\ run.structure.files = <<FileC, FileB, FileA>>
  /\ pc = "writing"
  /\ ai.prompt.path = FileC.path
  /\ ai.prompt.completedFiles = <<FileA.path, FileB.path>>

\* The todo request, planned as app/_layout.tsx and components/Button.tsx, run
\* to its end with no induced failure and a progress callback
TodoRunDone ==
  /\ pc = "resolved"
  /\ run.request = TodoRequest
  /\ PathsOf(run.structure.files) = <<AppLayout, ButtonPath>>
  /\ ai.induced = 0
  /\ progressCallback

\* C6 as stated: the todo run reports exactly planning, execution, execution,
\* integration, complete, and completedFiles has length 2 at complete.
C6_FivePhases ==
  TodoRunDone =>
    /\ Phases = <<"planning", "execution", "execution", "integration", "complete">>
    /\ Len(LastEvent.completedFiles) = 2

\* C6 amended: the todo run reports exactly planning, then execution three times
\* (once when the phase starts, with no current file, and once per file, naming
\* it), then integration, then complete, and completedFiles has length 2 at
\* complete.
C6_SixEvents ==
  TodoRunDone =>
    /\ Phases = <<"planning", "execution", "execution", "execution",
                  "integration", "complete">>
    /\ "currentFile" \notin DOMAIN events[2]
    /\ events[3].currentFile = AppLayout
    /\ events[4].currentFile = ButtonPath
    /\ Len(LastEvent.completedFiles) = 2

C6_Witness == TodoRunDone /\ Len(events) = 6

\* C7: generateProject without a non-empty API key rejects with 'API key not
\* configured' and the progress callback receives an event of phase error whose
\* error is 'API key not configured'.
C7_MissingKeyReported ==
  (pc = "rejected" /\ apiKey \in {"undefined", ""}) =>
    /\ result = [settled |-> "rejected", error |-> ApiKeyNotConfigured]
    /\ progressCallback =>
         /\ events # <<>>
         /\ LastEvent.phase = "error"
         /\ LastEvent.error = ApiKeyNotConfigured

PhaseRank(phase) ==
  CASE phase = "planning" -> 1
    [] phase = "execution" -> 2
    [] phase = "integration" -> 3
    [] phase = "complete" -> 4
    [] phase = "error" -> 5

\* C8: the phases reported in a run never go back in the order planning,
\* execution, integration, complete; an error event is the last event of its
\* run, and nothing is reported after a complete or an error event.
C8_PhasesForward ==
  /\ \A i \in 1..Len(events) : \A j \in i..Len(events) :
       PhaseRank(events[i].phase) <= PhaseRank(events[j].phase)
  /\ \A i \in 1..Len(events) :
       events[i].phase \in {"complete", "error"} => i = Len(events)
  /\ (events # <<>> /\ LastEvent.phase \in {"complete", "error"})
       => pc \in {"resolved", "rejected"}

C8_Witness ==
  /\ Len(events) >= 3
  /\ LastEvent.phase = "error"
  /\ events[Len(events) - 1].phase = "integration"

\* The run works on the plan that had no files field
BareRun == Planned /\ run.structure = parseProjectStructure(BarePlan, run.request)

\* C22: a plan without the files field is given the empty list and the run
\* does not fail for it: it asks the gateway for no file, stops only where a
\* FileStore call failed, and resolves after an execution and an integration
\* event with a complete event of totalFiles 0 and no completed file.
C22_NoFilesCompletes ==
  BareRun =>
    /\ run.structure.files = <<>>
    /\ pc \in {"nextFile", "package.json", "app.json", "README.md", "resolved", "rejected"}
    /\ pc = "rejected" => ~lastOp.ok
    /\ (pc = "resolved" /\ progressCallback) =>
         /\ Phases = <<"planning", "execution", "integration", "complete">>
         /\ LastEvent.totalFiles = 0
         /\ LastEvent.completedFiles = <<>>

C22_Witness ==
  BareRun /\ pc = "resolved" /\ progressCallback /\ LastEvent.phase = "complete"

\* The planned specs of kind file
PlannedFiles ==
  { run.structure.files[i].path :
      i \in { j \in 1..Len(run.structure.files) : run.structure.files[j].type = "file" } }

\* The store holds at path what integrateProject writes there
Integrated(path) == Stored(path) = [ok |-> TRUE, value |-> IntegrationContent(path)]

\* C23: at complete the store holds integration's package.json and README.md
\* under the project root, and its app.json exactly when the plan's framework
\* is expo; and the store never holds one of them while a planned file is
\* still unwritten.
C23_IntegrationAfterFiles ==
  Planned =>
    /\ pc = "resolved" =>
         /\ Integrated(PackageJsonName)
         /\ Integrated(ReadmeName)
         /\ Integrated(AppJsonName) <=> run.structure.framework = "expo"
         /\ Stored(AppJsonName).ok <=> run.structure.framework = "expo"
    /\ (\E name \in {PackageJsonName, AppJsonName, ReadmeName} : Integrated(name)) =>
         /\ run.fileIdx > Len(run.sortedFiles)
         /\ \A path \in PlannedFiles : Stored(path).ok

C23_Witness ==
  /\ Planned
  /\ pc = "resolved"
  /\ PlannedFiles # {}
  /\ run.structure.framework = "expo"
  /\ Integrated(AppJsonName)

\* generateProject was rejected after it had emitted the planning event
RunFailed == pc = "rejected" /\ "callI" \in DOMAIN run

\* The error thrown into the catch block of generateProject, told from where
\* the run stands
Triggering(error) ==
  IF ~Planned
  THEN \/ lastOp.op = "none" /\ error = Err("Failed to plan project structure", <<>>, "")
       \/ lastOp.op = "createProject" /\ ~lastOp.ok /\ error.msg = "Failed to create project"
  ELSE IF run.fileIdx <= Len(run.sortedFiles)
  THEN \/ error = FailedToGenerate
       \/ /\ error.msg = "Failed to write file"
          /\ lastOp.op = "writeFile" /\ ~lastOp.ok /\ lastOp.path = CurrentFile.path
  ELSE /\ error.msg = "Failed to write file"
       /\ lastOp.op = "writeFile" /\ ~lastOp.ok /\ IntegrationWrites(lastOp.path)

\* C27: when a run fails after it has started, generateProject rejects with the
\* error thrown by the failing step, the last progress event has phase error and
\* carries that error, and the files written before the failure are still in
\* the store.
C27_FailureReported ==
  RunFailed =>
    /\ result.settled = "rejected"
    /\ Triggering(result.error)
    /\ progressCallback =>
         /\ LastEvent.phase = "error"
         /\ LastEvent.error = result.error
    /\ Planned => \A i \in 1..Len(run.completedFiles) : Stored(run.completedFiles[i]).ok

C27_Witness ==
  /\ RunFailed
  /\ progressCallback
  /\ Planned
  /\ run.completedFiles # <<>>
  /\ run.fileIdx <= Len(run.sortedFiles)
  /\ LastEvent.error = FailedToGenerate

\* C29: every execution, integration and complete event carries as
\* completedFiles exactly the paths generated and written so far in the run,
\* in generation order and without duplicates, and no spec of kind directory.
C29_CompletedFilesExact ==
  (Planned /\ progressCallback) =>
    \A i \in 1..Len(events) :
      \A e \in {events[i]} :
        e.phase \in {"execution", "integration", "complete"} =>
          /\ Len(e.completedFiles) <= Len(run.completedFiles)
          /\ e.completedFiles = SubSeq(run.completedFiles, 1, Len(e.completedFiles))
          /\ e.phase \in {"integration", "complete"} => e.completedFiles = run.completedFiles
          /\ (i = Len(events) /\ pc \in {"generating", "writing"}) =>
               e.completedFiles = run.completedFiles
          /\ \A j \in 1..Len(e.completedFiles) :
               /\ e.completedFiles[j] \in PlannedFiles
               /\ \A k \in 1..Len(e.completedFiles) :
                    e.completedFiles[j] = e.completedFiles[k] => j = k

(***************************************************************************)
(* Properties of the useAgent hook (checked under SpecHook)                *)
(***************************************************************************)
\* C24: isGenerating is true only while a generateProject call of the hook is
\* in flight: once the call has resolved or rejected it is false, whether or
\* not the hook's initializeAgent registered the progress callback.
C24_GeneratingOnlyInFlight ==
  hook.isGenerating => hook.call = "inFlight"

(***************************************************************************)
(* Properties of PreviewEngine (checked under SpecPreview)                 *)
(***************************************************************************)
\* C30: after a startPreview that failed, getPreviewStatus().isActive is false,
\* and an updatePreview that follows it fails with 'No active preview to
\* update' and writes nothing to the store.
C30_FailedStartInactive ==
  /\ (lastOp.op = "startPreview" /\ ~lastOp.ok) =>
       ~getPreviewStatus(currentPreview).isActive
  /\ (lastOp.op = "updatePreview" /\ lastOp.afterFailedStart) =>
       /\ ~lastOp.ok
       /\ lastOp.error = NoActivePreview
       /\ Store = lastOp.before

(***************************************************************************)
(* Properties of sortFilesByDependencies (checked under SpecSort)          *)
(***************************************************************************)
DependenciesOf(file) == IF "dependencies" \in DOMAIN file THEN file.dependencies ELSE <<>>

\* The pairs <<i, j>> of specs where the path of files[j] contains a dependency
\* fragment of files[i]
Matches(files) ==
  { e \in (1..Len(files)) \X (1..Len(files)) :
      /\ e[1] # e[2]
      /\ \E k \in 1..Len(DependenciesOf(files[e[1]])) :
           Includes(files[e[2]].path, DependenciesOf(files[e[1]])[k]) }

\* R and the pairs joined by two pairs of R, k times over
RECURSIVE Compose(_, _)
Compose(R, k) ==
  IF k = 0 THEN R
  ELSE Value({ Compose(S, j) :
               j \in {k - 1},
               S \in {R \cup { <<p[1][1], p[2][2]>> :
                              p \in { q \in R \X R : q[1][2] = q[2][1] } }} })

\* files[i] depends on files[j], directly or through other specs
DependsOn(files) == Compose(Matches(files), Len(files))

DistinctPaths(files) ==
  \A i, j \in 1..Len(files) : files[i].path = files[j].path => i = j

\* The place of the spec with this path in the sorted list
PlaceOf(sorted, path) == CHOOSE k \in 1..Len(sorted) : sorted[k].path = path

Sorted == pc = "sorted"

\* C25: in the sorted list every other spec T whose path contains a dependency
\* fragment of a spec S comes before S, unless T depends on S, directly or
\* through other specs.
C25_DependenciesFirst ==
  (Sorted /\ DistinctPaths(run.structure.files)) =>
    \A files \in {run.structure.files} :
      \A direct \in {Matches(files)}, closure \in {DependsOn(files)} :
        \A e \in direct :
          <<e[2], e[1]>> \notin closure =>
            PlaceOf(run.sortedFiles, files[e[2]].path)
              < PlaceOf(run.sortedFiles, files[e[1]].path)

\* C26: sortFilesByDependencies returns for every input, with cyclic,
\* self-referencing and unresolved fragments too, and what it returns holds
\* each path of the input exactly once, with the first spec listed under that
\* path: a permutation of the input when its paths are distinct.
C26_SortReturnsPermutation ==
  /\ ~Sorted => ENABLED SortFiles
  /\ Sorted =>
       \A files \in {run.structure.files}, sorted \in {run.sortedFiles} :
         /\ DistinctPaths(sorted)
         /\ {sorted[k].path : k \in 1..Len(sorted)} = {files[i].path : i \in 1..Len(files)}
         /\ \A k \in 1..Len(sorted) :
              sorted[k] = files[CHOOSE i \in 1..Len(files) :
                                  /\ files[i].path = sorted[k].path
                                  /\ \A j \in 1..(i - 1) : files[j].path # sorted[k].path]
         /\ DistinctPaths(files) => Len(sorted) = Len(files)

\* A sorted list of three specs: two that depend on each other, one that names
\* itself and a path no spec has
C26_Witness ==
  /\ Sorted
  /\ Len(run.sortedFiles) = 3
  /\ \E i, j, k \in 1..3 :
       \E files \in {run.structure.files} :
         /\ {<<i, j>>, <<j, i>>} \subseteq Matches(files)
         /\ k \notin {i, j}
         /\ DependenciesOf(files[k]) = <<<<"z">>, <<"a">>>>
         /\ Includes(files[k].path, <<"a">>)

====
